---- MODULE Spec2Model ----
(***************************************************************************)
(* tfplan-commenter (src/main.go): a Terraform plan, decoded from JSON, is *)
(* classified into Create / Update / Delete / Replace buckets, every       *)
(* resource's before/after attribute maps are diffed, and the result is    *)
(* rendered as Markdown.                                                   *)
(*                                                                         *)
(* Conventions of the model                                                *)
(*  - A decoded JSON value (Go interface{}) is a record tagged by "kind":  *)
(*    nil, string, number (float64; only small non-negative integers, for  *)
(*    which %v prints the digits), bool, list ([]interface{}) and map      *)
(*    (map[string]interface{}, a function from its keys to values).        *)
(*  - Go ranges over a map in an unspecified order that differs from run   *)
(*    to run.  Every range over a map takes the order it visits the keys   *)
(*    in as an extra argument, and the action that runs the code picks it  *)
(*    with \E among all enumerations of the keys.                          *)
(*  - Markdown is the sequence of the strings handed to WriteString, and   *)
(*    Bytes(md) is their concatenation, the string md.String() returns.    *)
(*    The module is ASCII: an emoji of a fixed text is written as its      *)
(*    short code (":clipboard:"), the arrow as "->", and the backquote of  *)
(*    a code span, which a TLA+ string cannot hold, as "~".                *)
(***************************************************************************)
EXTENDS Integers, Sequences, FiniteSets, TLC

VARIABLES
    plan,      \* the decoded plan handed to the pipeline (TerraformPlan)
    summary,   \* the ResourceSummary of the last classification
    md,        \* the Markdown of the last rendering
    op,        \* the operation that ran last
    change,    \* the Change handed to the attribute differ
    diff,      \* the []AttributeChange analyzeAttributeChanges returned
    reason,    \* the string determineReplaceReason returned
    plans,     \* the []PlanInfo of directory mode
    versions,  \* allTerraformVersions after the accumulation loop
    walk,      \* the entries filepath.Walk hands to the callback, in order
    visited,   \* how many entries of walk the callback has been called for
    err,       \* the error of the walk, None for nil
    outputFile,\* the bytes written to the output file, None when not written
    exitCode,  \* the exit status of main, None while it runs
    stderr,    \* the messages written to os.Stderr, in order
    input,     \* the argument of the function called on its own
    output     \* what that call returned

\* The state of directory mode.
dirVars == <<plans, versions, walk, visited, err, outputFile, exitCode, stderr>>

\* The state of a call of one function on its own.
fnVars == <<input, output>>

vars == <<plan, summary, md, op, change, diff, reason, dirVars, fnVars>>

(***************************************************************************)
(* Bounds of the model.                                                    *)
(***************************************************************************)
\* Most resource changes in one plan.
MaxChanges == 2
\* Most keys in the union of the before and after maps of a differ input.
MaxKeys == 2

\* Most plans handed to the multi-plan renderer.
MaxPlans == 2
\* Most entries one directory walk visits.
MaxEntries == 3
\* Most resources in a bucket handed to formatResourceList, and most items
\* of a composite value handed to formatAttributeValue.
MaxList == 5

(***************************************************************************)
(* Decoded JSON values.                                                    *)
(***************************************************************************)
Nil == [kind |-> "nil"]
Str(s) == [kind |-> "string", s |-> s]
Num(n) == [kind |-> "number", n |-> n]
Bool(b) == [kind |-> "bool", b |-> b]
List(items) == [kind |-> "list", items |-> items]
Map(m) == [kind |-> "map", m |-> m]

\* A value of a variable that has not been produced yet.
None == [kind |-> "none"]

\* No directory is being processed.
NoDirectory ==
    /\ plans = None
    /\ versions = None
    /\ walk = None
    /\ visited = None
    /\ err = None
    /\ outputFile = None
    /\ exitCode = None
    /\ stderr = None

\* No function is called on its own.
NoCall ==
    /\ input = None
    /\ output = None

\* The map with no key.
EmptyMap == << >>

\* v.(map[string]interface{}) succeeds.
IsMap(v) == v.kind = "map"

\* The ascending byte order of the keys of maps (fmt prints a map with its
\* keys sorted): the keys of the plan format, of the inputs and of the
\* repository's tests.
KeyOrder ==
    <<"Environment", "Name", "actions", "address", "after", "after_unknown", "ami",
      "arn", "availability_zone", "bar", "before", "change", "create", "delete",
      "description", "engine", "env", "family", "foo", "format_version", "id",
      "instance_type", "key", "mode", "module_address", "name",
      "parameter_group_name", "port", "provider_name", "region", "resource_changes",
      "size", "tags", "tags_all", "terraform_version", "timeouts", "timestamp",
      "type", "update", "value", "version", "vpc_id">>

\* The place of string k in the ascending table order: the number of
\* entries before it.  A string the table does not list is placed after the
\* listed ones.
RankIn(order, k) == Cardinality({i \in 1..Len(order) : \A j \in 1..i : order[j] # k})

\* The elements of S arranged in ascending order of their rank r.
Ascending(S, r) ==
    CHOOSE ks \in [1..Cardinality(S) -> S] :
        /\ \A i, j \in 1..Cardinality(S) : i < j => ks[i] # ks[j]
        /\ \A i, j \in 1..Cardinality(S) : i < j => r[ks[i]] <= r[ks[j]]

\* The keys of map m in ascending order: every key of m, sorted.
SortedKeys(m) == Ascending(DOMAIN m, [k \in DOMAIN m |-> RankIn(KeyOrder, k)])

\* strings.Join(parts, sep)
RECURSIVE Join(_, _)
Join(parts, sep) ==
    IF parts = << >> THEN ""
    ELSE IF Len(parts) = 1 THEN parts[1]
    ELSE parts[1] \o sep \o Join(Tail(parts), sep)

\* fmt.Sprintf("%v", v)
RECURSIVE Sprintv(_)
Sprintv(v) ==
    CASE v.kind = "nil" -> "<nil>"
      [] v.kind = "string" -> v.s
      [] v.kind = "number" -> ToString(v.n)
      [] v.kind = "bool" -> (IF v.b THEN "true" ELSE "false")
      [] v.kind = "list" ->
            "[" \o Join([i \in 1..Len(v.items) |-> Sprintv(v.items[i])], " ") \o "]"
      [] v.kind = "map" ->
            LET ks == SortedKeys(v.m)
            IN "map[" \o Join([i \in 1..Len(ks) |->
                                 ks[i] \o ":" \o Sprintv(v.m[ks[i]])], " ") \o "]"

(***************************************************************************)
(* The attribute differ.                                                   *)
(***************************************************************************)
skipAttributes == <<"id", "arn", "tags_all", "timeouts">>

\* A differ that skips only the first entry of skipAttributes.
shouldSkipAttributeFirstOnly(key) == key = skipAttributes[1]

shouldSkipAttribute(key) ==
    \E i \in 1..Len(skipAttributes) : key = skipAttributes[i]

\* A comparison of the values themselves instead of their renderings.
deepEqualStructural(a, b) == a = b

deepEqual(a, b) == Sprintv(a) = Sprintv(b)

AttributeChange(attr, before, after, isNew, isRemoved) ==
    [Attribute |-> attr, Before |-> before, After |-> after,
     IsNew |-> isNew, IsRemoved |-> isRemoved]

\* The body of the loop over allKeys for one key: the records it appends.
attributeRecord(beforeMap, afterMap, key) ==
    LET beforeExists == key \in DOMAIN beforeMap
        afterExists == key \in DOMAIN afterMap
    IN IF shouldSkipAttribute(key) THEN << >>
       ELSE IF ~beforeExists /\ afterExists
            THEN <<AttributeChange(key, Nil, afterMap[key], TRUE, FALSE)>>
       ELSE IF beforeExists /\ ~afterExists
            THEN <<AttributeChange(key, beforeMap[key], Nil, FALSE, TRUE)>>
       ELSE IF beforeExists /\ afterExists
               /\ ~deepEqual(beforeMap[key], afterMap[key])
            THEN <<AttributeChange(key, beforeMap[key], afterMap[key], FALSE, FALSE)>>
       ELSE << >>

\* The keys of allKeys for a change (empty when a side is not a map).
allKeys(c) ==
    IF IsMap(c.Before) /\ IsMap(c.After)
    THEN DOMAIN c.Before.m \cup DOMAIN c.After.m
    ELSE {}

\* The orders in which a range over a map with key set S may visit the keys.
KeyOrders(S) ==
    {o \in [1..Cardinality(S) -> S] :
        \A i, j \in 1..Cardinality(S) : i # j => o[i] # o[j]}

RECURSIVE analyzeKeys(_, _, _)
analyzeKeys(beforeMap, afterMap, order) ==
    IF order = << >> THEN << >>
    ELSE attributeRecord(beforeMap, afterMap, Head(order))
         \o analyzeKeys(beforeMap, afterMap, Tail(order))

\* The map under v, or no key at all when v is not a map.
MapOrEmpty(v) == IF IsMap(v) THEN v.m ELSE EmptyMap

\* A differ that gives up only when neither side is a map, and reads a side
\* that is not a map as a map without keys.
analyzeAttributeChangesEitherSide(c, order) ==
    IF ~IsMap(c.Before) /\ ~IsMap(c.After) THEN << >>
    ELSE analyzeKeys(MapOrEmpty(c.Before), MapOrEmpty(c.After),
                     SortedKeys(MapOrEmpty(c.Before) @@ MapOrEmpty(c.After)))

\* analyzeAttributeChanges(change), the range over allKeys visiting the
\* keys in the given order.
analyzeAttributeChanges(c, order) ==
    IF ~IsMap(c.Before) \/ ~IsMap(c.After) THEN << >>
    ELSE analyzeKeys(c.Before.m, c.After.m, order)

(***************************************************************************)
(* Reasons.                                                                *)
(***************************************************************************)
forceReplaceAttrs == <<"name", "family", "engine", "vpc_id", "availability_zone">>

IsForceAttr(attr) == \E i \in 1..Len(forceReplaceAttrs) : attr = forceReplaceAttrs[i]

\* A message that gives the new value as the old one and the old as the new.
ForceMessageSwapped(ac) ==
    "Attribute '" \o ac.Attribute \o "' changed from '" \o Sprintv(ac.After)
    \o "' to '" \o Sprintv(ac.Before) \o "' (forces replacement)"

ForceMessage(ac) ==
    "Attribute '" \o ac.Attribute \o "' changed from '" \o Sprintv(ac.Before)
    \o "' to '" \o Sprintv(ac.After) \o "' (forces replacement)"

\* A reason that is generic only when several attributes changed.
determineReplaceReasonNeedingSeveral(c, order) ==
    LET changes == analyzeAttributeChanges(c, order)
        hits == SelectSeq(changes, LAMBDA ac : IsForceAttr(ac.Attribute))
    IN IF hits # << >> THEN ForceMessage(hits[1])
       ELSE IF Len(changes) > 1
            THEN "Multiple attribute changes require replacement"
       ELSE "Resource configuration requires replacement"

\* determineReplaceReason(change); order is the order of the second run of
\* the differ, made inside the function.
determineReplaceReason(c, order) ==
    LET reasonOf(changes) ==
           LET hits == SelectSeq(changes, LAMBDA ac : IsForceAttr(ac.Attribute))
           IN IF hits # << >> THEN ForceMessage(hits[1])
              ELSE IF Len(changes) > 0
                   THEN "Multiple attribute changes require replacement"
              ELSE "Resource configuration requires replacement"
    IN reasonOf(analyzeAttributeChanges(c, order))

keyAttrs == <<"name", "id", "family", "engine">>

\* A delete reason that is empty when before is not a map.
determineDeleteReasonEmpty(c) ==
    IF ~IsMap(c.Before) THEN ""
    ELSE LET beforeMap == c.Before.m
             present == SelectSeq(keyAttrs,
                            LAMBDA attr : attr \in DOMAIN beforeMap /\ beforeMap[attr] # Nil)
             identifiers == [i \in 1..Len(present) |->
                                present[i] \o ": " \o Sprintv(beforeMap[present[i]])]
         IN IF Len(identifiers) > 0
            THEN "Resource with " \o Join(identifiers, ", ")
            ELSE "Resource marked for deletion"

\* A delete reason that counts a key bound to null as an identifier.
determineDeleteReasonNullAsValue(c) ==
    IF ~IsMap(c.Before) THEN "Resource marked for deletion"
    ELSE LET beforeMap == c.Before.m
             present == SelectSeq(keyAttrs, LAMBDA attr : attr \in DOMAIN beforeMap)
             identifiers == [i \in 1..Len(present) |->
                                present[i] \o ": " \o Sprintv(beforeMap[present[i]])]
         IN IF Len(identifiers) > 0
            THEN "Resource with " \o Join(identifiers, ", ")
            ELSE "Resource marked for deletion"

\* determineDeleteReason(change)
determineDeleteReason(c) ==
    IF ~IsMap(c.Before) THEN "Resource marked for deletion"
    ELSE LET beforeMap == c.Before.m
             present == SelectSeq(keyAttrs,
                            LAMBDA attr : attr \in DOMAIN beforeMap /\ beforeMap[attr] # Nil)
             identifiers == [i \in 1..Len(present) |->
                                present[i] \o ": " \o Sprintv(beforeMap[present[i]])]
         IN IF Len(identifiers) > 0
            THEN "Resource with " \o Join(identifiers, ", ")
            ELSE "Resource marked for deletion"

(***************************************************************************)
(* The change classifier.                                                  *)
(***************************************************************************)
containsAction(actions, action) == \E i \in 1..Len(actions) : actions[i] = action

\* A classifier that tests update before create.
primaryActionUpdateFirst(actions) ==
    IF containsAction(actions, "create") /\ containsAction(actions, "delete") THEN "Replace"
    ELSE IF containsAction(actions, "update") THEN "Update"
    ELSE IF containsAction(actions, "create") THEN "Create"
    ELSE IF containsAction(actions, "delete") THEN "Delete"
    ELSE ""

\* A classifier whose last branch is a plain else: what is neither replaced,
\* created nor updated is deleted.
primaryActionDeleteOtherwise(actions) ==
    IF containsAction(actions, "create") /\ containsAction(actions, "delete") THEN "Replace"
    ELSE IF containsAction(actions, "create") THEN "Create"
    ELSE IF containsAction(actions, "update") THEN "Update"
    ELSE "Delete"

\* The branch the if/else-if chain of analyzeResourceChanges takes: the name
\* of the bucket, or "" when no branch is taken.
primaryAction(actions) ==
    IF containsAction(actions, "create") /\ containsAction(actions, "delete") THEN "Replace"
    ELSE IF containsAction(actions, "create") THEN "Create"
    ELSE IF containsAction(actions, "update") THEN "Update"
    ELSE IF containsAction(actions, "delete") THEN "Delete"
    ELSE ""

\* The addresses the model uses, in ascending byte order: a < b is Go's
\* comparison of two strings.  The empty string, the address of a resource
\* change decoded without one, is less than every other string.
AddressOrder == <<"", "aws_a.x", "aws_a.y", "aws_b.x">>

\* The place of address a in the order; an address the table does not list
\* is placed after the listed ones.
AddressRank(a) == RankIn(AddressOrder, a)

\* resources[i].Address < resources[j].Address
AddressLess(a, b) == AddressRank(a) < AddressRank(b)

\* One run of the inner loop of the insertion sort: the element at j moves
\* left while it is less than its left neighbour.
RECURSIVE sinkLeft(_, _)
sinkLeft(resources, j) ==
    IF j > 1 /\ AddressLess(resources[j].Address, resources[j - 1].Address)
    THEN sinkLeft([resources EXCEPT ![j] = resources[j - 1], ![j - 1] = resources[j]], j - 1)
    ELSE resources

RECURSIVE insertionSort(_, _)
insertionSort(resources, i) ==
    IF i > Len(resources) THEN resources
    ELSE insertionSort(sinkLeft(resources, i), i + 1)

\* A sort that leaves the slice as it is.
sortResourceDetailsNoop(resources) == resources

\* sortResourceDetails(resources): sort.Slice by Address.  On a slice of at
\* most 12 elements sort.Slice is the insertion sort.
sortResourceDetails(resources) == insertionSort(resources, 2)

ResourceDetail(address, changes, forceReason) ==
    [Address |-> address, Changes |-> changes, ForceReason |-> forceReason]

EmptySummary == [Create |-> << >>, Update |-> << >>, Delete |-> << >>, Replace |-> << >>]

\* The body of the loop of analyzeResourceChanges for one resource change;
\* ord.diff and ord.reason are the iteration orders of the two runs of the
\* differ.
classifyOne(s, rc, ord) ==
    LET classify(changes, branch) ==
           CASE branch = "Replace" ->
                  [s EXCEPT !.Replace = Append(@, ResourceDetail(rc.Address, changes,
                                          determineReplaceReason(rc.Change, ord.reason)))]
             [] branch = "Create" ->
                  [s EXCEPT !.Create = Append(@, ResourceDetail(rc.Address, changes, ""))]
             [] branch = "Update" ->
                  [s EXCEPT !.Update = Append(@, ResourceDetail(rc.Address, changes, ""))]
             [] branch = "Delete" ->
                  [s EXCEPT !.Delete = Append(@, ResourceDetail(rc.Address, changes,
                                          determineDeleteReason(rc.Change)))]
             [] OTHER -> s
    IN classify(analyzeAttributeChanges(rc.Change, ord.diff),
                primaryAction(rc.Change.Actions))

RECURSIVE classifyAll(_, _, _)
classifyAll(s, changes, orders) ==
    IF changes = << >> THEN s
    ELSE classifyAll(classifyOne(s, Head(changes), Head(orders)),
                     Tail(changes), Tail(orders))

\* analyzeResourceChanges(changes)
analyzeResourceChanges(changes, orders) ==
    LET sorted(s) ==
           [Create |-> sortResourceDetails(s.Create),
            Update |-> sortResourceDetails(s.Update),
            Delete |-> sortResourceDetails(s.Delete),
            Replace |-> sortResourceDetails(s.Replace)]
    IN sorted(classifyAll(EmptySummary, changes, orders))

\* The iteration orders one run of analyzeResourceChanges may meet: for
\* every resource change the order of the differ's run for Changes, and, on
\* the Replace branch only, the order of the run determineReplaceReason
\* makes.
RECURSIVE ChangeOrders(_)
ChangeOrders(changes) ==
    IF changes = << >> THEN {<< >>}
    ELSE LET c == Head(changes).Change
             second == IF primaryAction(c.Actions) = "Replace"
                       THEN KeyOrders(allKeys(c)) ELSE {<< >>}
         IN {<<[diff |-> d, reason |-> r]>> \o rest :
                d \in KeyOrders(allKeys(c)), r \in second,
                rest \in ChangeOrders(Tail(changes))}

(***************************************************************************)
(* The single-plan renderer.                                               *)
(***************************************************************************)
\* A formatter that prints a composite value as %v does.
formatAttributeValuePrintingContents(val) ==
    CASE val.kind = "nil" -> "(null)"
      [] val.kind = "string" -> (IF val.s = "" THEN "(empty)" ELSE "\"" \o val.s \o "\"")
      [] OTHER -> Sprintv(val)

\* formatAttributeValue(val)
formatAttributeValue(val) ==
    CASE val.kind = "nil" -> "(null)"
      [] val.kind = "string" -> (IF val.s = "" THEN "(empty)" ELSE "\"" \o val.s \o "\"")
      [] val.kind = "list" ->
            (IF Len(val.items) = 0 THEN "[]"
             ELSE "[" \o ToString(Len(val.items)) \o " items]")
      [] val.kind = "map" ->
            (IF Cardinality(DOMAIN val.m) = 0 THEN "{}"
             ELSE "{" \o ToString(Cardinality(DOMAIN val.m)) \o " keys}")
      [] OTHER -> Sprintv(val)

\* A list that is cut as soon as it holds maxDisplay addresses.
formatResourceListCutAtMax(resources, maxDisplay) ==
    LET resourceNames == [i \in 1..Len(resources) |-> resources[i].Address]
    IN IF Len(resources) = 0 THEN ""
       ELSE IF Len(resourceNames) < maxDisplay THEN Join(resourceNames, ", ")
       ELSE Join(SubSeq(resourceNames, 1, maxDisplay), ", ")
            \o ", ... (+" \o ToString(Len(resourceNames) - maxDisplay) \o " more)"

\* formatResourceList(resources, maxDisplay)
formatResourceList(resources, maxDisplay) ==
    LET resourceNames == [i \in 1..Len(resources) |-> resources[i].Address]
    IN IF Len(resources) = 0 THEN ""
       ELSE IF Len(resourceNames) <= maxDisplay THEN Join(resourceNames, ", ")
       ELSE Join(SubSeq(resourceNames, 1, maxDisplay), ", ")
            \o ", ... (+" \o ToString(Len(resourceNames) - maxDisplay) \o " more)"

\* The maxDisplay every caller passes to formatResourceList.
MaxDisplay == 3

\* The concatenation of a sequence of sequences.
RECURSIVE Flatten(_)
Flatten(ss) == IF ss = << >> THEN << >> ELSE Head(ss) \o Flatten(Tail(ss))

\* One row of the summary table, written when the bucket is not empty.
TableRow(label, bucket) ==
    IF Len(bucket) > 0
    THEN <<"| " \o label \o " | " \o ToString(Len(bucket)) \o " | "
           \o formatResourceList(bucket, MaxDisplay) \o " |\n">>
    ELSE << >>

\* The bullet of one attribute change (Update and Replace sections).
AttributeBullet(ac) ==
    IF ac.IsNew
    THEN "- **" \o ac.Attribute \o "**: " \o formatAttributeValue(ac.After) \o " *(new)*\n"
    ELSE IF ac.IsRemoved
    THEN "- **" \o ac.Attribute \o "**: " \o formatAttributeValue(ac.Before) \o " *(removed)*\n"
    ELSE "- **" \o ac.Attribute \o "**: " \o formatAttributeValue(ac.Before)
         \o " -> " \o formatAttributeValue(ac.After) \o "\n"

AttributeBullets(changes) == [i \in 1..Len(changes) |-> AttributeBullet(changes[i])]

CreateSection(bucket) ==
    IF Len(bucket) > 0
    THEN <<"### :green_circle: Resources to be Created\n\n">>
         \o [i \in 1..Len(bucket) |-> "- ~" \o bucket[i].Address \o "~\n"]
         \o <<"\n">>
    ELSE << >>

UpdateEntry(resource) ==
    <<"#### ~" \o resource.Address \o "~\n\n">>
    \o (IF Len(resource.Changes) > 0
        THEN <<"**Attributes being modified:**\n\n">> \o AttributeBullets(resource.Changes)
        ELSE <<"*No specific attribute changes detected*\n">>)
    \o <<"\n">>

UpdateSection(bucket) ==
    IF Len(bucket) > 0
    THEN <<"### :yellow_circle: Resources to be Updated\n\n">>
         \o Flatten([i \in 1..Len(bucket) |-> UpdateEntry(bucket[i])])
    ELSE << >>

ReplaceEntry(resource) ==
    <<"#### ~" \o resource.Address \o "~\n\n">>
    \o (IF resource.ForceReason # ""
        THEN <<"**Reason for replacement:** " \o resource.ForceReason \o "\n\n">>
        ELSE << >>)
    \o (IF Len(resource.Changes) > 0
        THEN <<"**Attribute changes:**\n\n">> \o AttributeBullets(resource.Changes)
        ELSE << >>)
    \o <<"\n">>

ReplaceSection(bucket) ==
    IF Len(bucket) > 0
    THEN <<"### :arrows_counterclockwise: Resources to be Replaced\n\n">>
         \o Flatten([i \in 1..Len(bucket) |-> ReplaceEntry(bucket[i])])
    ELSE << >>

\* A Delete entry that lists the attribute changes as a Replace entry does.
DeleteEntryWithChanges(resource) ==
    <<"#### ~" \o resource.Address \o "~\n\n">>
    \o (IF resource.ForceReason # ""
        THEN <<"**Resource details:** " \o resource.ForceReason \o "\n\n">>
        ELSE << >>)
    \o (IF Len(resource.Changes) > 0
        THEN <<"**Attribute changes:**\n\n">> \o AttributeBullets(resource.Changes)
        ELSE << >>)

DeleteEntry(resource) ==
    <<"#### ~" \o resource.Address \o "~\n\n">>
    \o (IF resource.ForceReason # ""
        THEN <<"**Resource details:** " \o resource.ForceReason \o "\n\n">>
        ELSE << >>)

DeleteSection(bucket) ==
    IF Len(bucket) > 0
    THEN <<"### :red_circle: Resources to be Deleted\n\n">>
         \o Flatten([i \in 1..Len(bucket) |-> DeleteEntry(bucket[i])])
    ELSE << >>

\* A total that leaves the Replace bucket out.
totalChangesNoReplace(s) == Len(s.Create) + Len(s.Update) + Len(s.Delete)

\* totalChanges of generateMarkdownComment, and envTotalChanges of
\* generateMultiPlanMarkdownComment.
totalChanges(s) == Len(s.Create) + Len(s.Update) + Len(s.Delete) + Len(s.Replace)

\* A renderer that writes the Delete row and section before the Replace
\* ones.
SummaryWritesDeleteBeforeReplace(s, version) ==
    <<"**Total resources affected:** " \o ToString(totalChanges(s)) \o "\n\n",
      "| Action | Count | Resources |\n",
      "|--------|-------|----------|\n">>
    \o TableRow(":green_circle: **Create**", s.Create)
    \o TableRow(":yellow_circle: **Update**", s.Update)
    \o TableRow(":red_circle: **Delete**", s.Delete)
    \o TableRow(":arrows_counterclockwise: **Replace**", s.Replace)
    \o <<"\n">>
    \o CreateSection(s.Create)
    \o UpdateSection(s.Update)
    \o DeleteSection(s.Delete)
    \o ReplaceSection(s.Replace)
    \o <<"---\n",
         "*Generated from Terraform " \o version \o " plan*\n">>

\* What generateMarkdownComment writes past the test of totalChanges: the
\* total, the summary table, the detail sections and the footer.
SummaryWrites(s, version) ==
    <<"**Total resources affected:** " \o ToString(totalChanges(s)) \o "\n\n",
      "| Action | Count | Resources |\n",
      "|--------|-------|----------|\n">>
    \o TableRow(":green_circle: **Create**", s.Create)
    \o TableRow(":yellow_circle: **Update**", s.Update)
    \o TableRow(":arrows_counterclockwise: **Replace**", s.Replace)
    \o TableRow(":red_circle: **Delete**", s.Delete)
    \o <<"\n">>
    \o CreateSection(s.Create)
    \o UpdateSection(s.Update)
    \o ReplaceSection(s.Replace)
    \o DeleteSection(s.Delete)
    \o <<"---\n",
         "*Generated from Terraform " \o version \o " plan*\n">>

\* A renderer that writes the sentence of the empty summary and does not
\* return.
MarkdownWritesFallThrough(s, version) ==
    <<"## :clipboard: Terraform Plan Summary\n\n">>
    \o (IF totalChanges(s) = 0
        THEN <<":white_check_mark: **No changes detected** - Infrastructure is up to date!\n\n">>
        ELSE << >>)
    \o SummaryWrites(s, version)

\* Everything generateMarkdownComment writes to a builder for summary s.
MarkdownWrites(s, version) ==
    <<"## :clipboard: Terraform Plan Summary\n\n">>
    \o (IF totalChanges(s) = 0
        THEN <<":white_check_mark: **No changes detected** - Infrastructure is up to date!\n\n">>
        ELSE SummaryWrites(s, version))

\* A renderer that takes the total from the resource changes of the plan
\* where it should count the entries of the summary.
renderSummaryCountingPlan(s, p) ==
    [md |-> IF totalChanges(s) = 0
            THEN MarkdownWrites(s, p.TerraformVersion)
            ELSE <<"## :clipboard: Terraform Plan Summary\n\n",
                   "**Total resources affected:** "
                      \o ToString(Len(p.ResourceChanges)) \o "\n\n">>
                 \o Tail(SummaryWrites(s, p.TerraformVersion)),
     summary |-> s]

\* generateMarkdownComment from the declaration of its builder on, with the
\* two variables it has in scope, the summary and the plan: the builder is
\* new and empty and takes the writes for summary s, and of the plan only
\* TerraformVersion is read (line 568).  No statement of these lines assigns
\* to the summary or to an element of its slices: it is left as it came.
renderSummary(s, p) ==
    [md |-> << >> \o MarkdownWrites(s, p.TerraformVersion),
     summary |-> s]

\* md.String()
Bytes(writes) == Join(writes, "")

(***************************************************************************)
(* The multi-plan renderer.                                                *)
(***************************************************************************)
PlanInfo(p, relativePath) == [Plan |-> p, RelativePath |-> relativePath]

\* A collector that appends every version it is handed.
collectVersionAlways(allTerraformVersions, version) ==
    Append(allTerraformVersions, version)

\* The search of allTerraformVersions for version and the append when it
\* is not found.
collectVersion(allTerraformVersions, version) ==
    IF \E i \in 1..Len(allTerraformVersions) : allTerraformVersions[i] = version
    THEN allTerraformVersions
    ELSE Append(allTerraformVersions, version)

\* The totals and the version list before the first plan.
NoTotals ==
    [totalCreate |-> 0, totalUpdate |-> 0, totalDelete |-> 0, totalReplace |-> 0,
     allTerraformVersions |-> << >>]

\* A body of the accumulation loop that counts the plan's resource changes
\* as updates without classifying them.
accumulateStepCountingChanges(acc, planInfo, orders) ==
    [totalCreate |-> acc.totalCreate,
     totalUpdate |-> acc.totalUpdate + Len(planInfo.Plan.ResourceChanges),
     totalDelete |-> acc.totalDelete,
     totalReplace |-> acc.totalReplace,
     allTerraformVersions |->
        collectVersion(acc.allTerraformVersions, planInfo.Plan.TerraformVersion)]

\* A body of the accumulation loop that adds the replaced resources to the
\* deleted ones.
accumulateStepReplaceAsDelete(acc, planInfo, orders) ==
    LET s == analyzeResourceChanges(planInfo.Plan.ResourceChanges, orders)
    IN [totalCreate |-> acc.totalCreate + Len(s.Create),
        totalUpdate |-> acc.totalUpdate + Len(s.Update),
        totalDelete |-> acc.totalDelete + Len(s.Delete) + Len(s.Replace),
        totalReplace |-> acc.totalReplace,
        allTerraformVersions |->
           collectVersion(acc.allTerraformVersions, planInfo.Plan.TerraformVersion)]

\* One pass of the body of the accumulation loop.
accumulateStep(acc, planInfo, orders) ==
    LET add(s) ==
           [totalCreate |-> acc.totalCreate + Len(s.Create),
            totalUpdate |-> acc.totalUpdate + Len(s.Update),
            totalDelete |-> acc.totalDelete + Len(s.Delete),
            totalReplace |-> acc.totalReplace + Len(s.Replace),
            allTerraformVersions |->
               collectVersion(acc.allTerraformVersions, planInfo.Plan.TerraformVersion)]
    IN add(analyzeResourceChanges(planInfo.Plan.ResourceChanges, orders))

\* The accumulation loop over the first n plans.
RECURSIVE accumulate(_, _, _)
accumulate(planInfos, orders, n) ==
    IF n = 0 THEN NoTotals
    ELSE accumulateStep(accumulate(planInfos, orders, n - 1), planInfos[n], orders[n])

\* One row of the overall table, written when the total is positive.
TotalRow(label, total) ==
    IF total > 0 THEN <<"| " \o label \o " | " \o ToString(total) \o " |\n">> ELSE << >>

EnvCreateSection(bucket) ==
    IF Len(bucket) > 0
    THEN <<"**:green_circle: Resources to be Created:**\n">>
         \o [i \in 1..Len(bucket) |-> "- ~" \o bucket[i].Address \o "~\n"]
         \o <<"\n">>
    ELSE << >>

\* The descriptor of one attribute change of an updated resource.
ChangeDesc(ac) ==
    IF ac.IsNew THEN ac.Attribute \o " *(new)*"
    ELSE IF ac.IsRemoved THEN ac.Attribute \o " *(removed)*"
    ELSE ac.Attribute

EnvUpdateEntry(resource) ==
    <<"- ~" \o resource.Address \o "~">>
    \o (IF Len(resource.Changes) > 0
        THEN <<" - ",
               Join([i \in 1..Len(resource.Changes) |-> ChangeDesc(resource.Changes[i])], ", ")>>
        ELSE << >>)
    \o <<"\n">>

EnvUpdateSection(bucket) ==
    IF Len(bucket) > 0
    THEN <<"**:yellow_circle: Resources to be Updated:**\n">>
         \o Flatten([i \in 1..Len(bucket) |-> EnvUpdateEntry(bucket[i])])
         \o <<"\n">>
    ELSE << >>

\* The bullet of a replaced or deleted resource.
EnvReasonedEntry(resource) ==
    <<"- ~" \o resource.Address \o "~">>
    \o (IF resource.ForceReason # "" THEN <<" - " \o resource.ForceReason>> ELSE << >>)
    \o <<"\n">>

EnvReplaceSection(bucket) ==
    IF Len(bucket) > 0
    THEN <<"**:arrows_counterclockwise: Resources to be Replaced:**\n">>
         \o Flatten([i \in 1..Len(bucket) |-> EnvReasonedEntry(bucket[i])])
         \o <<"\n">>
    ELSE << >>

EnvDeleteSection(bucket) ==
    IF Len(bucket) > 0
    THEN <<"**:red_circle: Resources to be Deleted:**\n">>
         \o Flatten([i \in 1..Len(bucket) |-> EnvReasonedEntry(bucket[i])])
         \o <<"\n">>
    ELSE << >>

EnvHeader(relativePath) == "#### :file_folder: ~" \o relativePath \o "~\n\n"

NoChangesInEnvironment == ":white_check_mark: No changes in this environment\n\n"

\* What the subsection of a plan with changes holds after its header.
EnvDetails(s) ==
    <<"| Action | Count | Resources |\n",
      "|--------|-------|----------|\n">>
    \o TableRow(":green_circle: **Create**", s.Create)
    \o TableRow(":yellow_circle: **Update**", s.Update)
    \o TableRow(":arrows_counterclockwise: **Replace**", s.Replace)
    \o TableRow(":red_circle: **Delete**", s.Delete)
    \o <<"\n">>
    \o EnvCreateSection(s.Create)
    \o EnvUpdateSection(s.Update)
    \o EnvReplaceSection(s.Replace)
    \o EnvDeleteSection(s.Delete)
    \o <<"---\n\n">>

\* A pass of the loop that writes nothing for a plan without changes.
EnvironmentSectionSkippingEmpty(planInfo, orders) ==
    LET s == analyzeResourceChanges(planInfo.Plan.ResourceChanges, orders)
    IN IF totalChanges(s) = 0
       THEN << >>
       ELSE <<EnvHeader(planInfo.RelativePath)>> \o EnvDetails(s)

\* One pass of the body of the loop over the environments.
EnvironmentSection(planInfo, orders) ==
    LET section(s) ==
           <<EnvHeader(planInfo.RelativePath)>>
           \o (IF totalChanges(s) = 0
               THEN <<NoChangesInEnvironment>>
               ELSE EnvDetails(s))
    IN section(analyzeResourceChanges(planInfo.Plan.ResourceChanges, orders))

VersionFooter(allTerraformVersions) ==
    IF Len(allTerraformVersions) = 1
    THEN "*Generated from Terraform " \o allTerraformVersions[1] \o " plans*\n"
    ELSE "*Generated from Terraform plans (versions: "
         \o Join(allTerraformVersions, ", ") \o ")*\n"

MultiHeader == "## :clipboard: Multi-Environment Terraform Plan Summary\n\n"

NoChangesAcrossAll ==
    ":white_check_mark: **No changes detected across all environments** - Infrastructure is up to date!\n\n"

\* generateMultiPlanMarkdownComment(plans): the writes to its builder.
\* accOrders are the iteration orders of the classifications the
\* accumulation loop makes, envOrders those of the loop over the
\* environments.
generateMultiPlanMarkdownComment(planInfos, accOrders, envOrders) ==
    LET writes(acc, grandTotal) ==
           <<MultiHeader>>
           \o (IF grandTotal = 0
               THEN <<NoChangesAcrossAll>>
               ELSE <<"**Environments processed:** " \o ToString(Len(planInfos)) \o "\n",
                      "**Total resources affected:** " \o ToString(grandTotal) \o "\n\n",
                      "### :bar_chart: Overall Summary\n\n",
                      "| Action | Total Count |\n",
                      "|--------|-------------|\n">>
                    \o TotalRow(":green_circle: **Create**", acc.totalCreate)
                    \o TotalRow(":yellow_circle: **Update**", acc.totalUpdate)
                    \o TotalRow(":arrows_counterclockwise: **Replace**", acc.totalReplace)
                    \o TotalRow(":red_circle: **Delete**", acc.totalDelete)
                    \o <<"\n",
                         "### :building_construction: Environment Details\n\n">>
                    \o Flatten([i \in 1..Len(planInfos) |->
                                   EnvironmentSection(planInfos[i], envOrders[i])])
                    \o <<VersionFooter(acc.allTerraformVersions)>>)
        totalOf(acc) ==
           writes(acc, acc.totalCreate + acc.totalUpdate + acc.totalDelete + acc.totalReplace)
    IN totalOf(accumulate(planInfos, accOrders, Len(planInfos)))

\* The iteration orders one loop over the plans may meet: one ChangeOrders
\* per plan.
RECURSIVE PlanOrders(_)
PlanOrders(planInfos) ==
    IF planInfos = << >> THEN {<< >>}
    ELSE {<<o>> \o rest : o \in ChangeOrders(Head(planInfos).Plan.ResourceChanges),
                          rest \in PlanOrders(Tail(planInfos))}

(***************************************************************************)
(* Directory mode: findAndReadPlanFiles.  A path is the sequence of its    *)
(* components; an entry of the walk is what filepath.Walk hands to the     *)
(* callback: the path, whether it is a directory, whether the walk failed  *)
(* on it, and, for a file, what reading it gives.                          *)
(***************************************************************************)
\* The directory handed to findAndReadPlanFiles.
rootDir == <<"plans">>

\* info.Name()
Name(path) == path[Len(path)]

\* filepath.Dir(path)
Dir(path) == SubSeq(path, 1, Len(path) - 1)

\* filepath.Rel(base, targ) for targ at or under base, which is where the
\* walk of base finds every path; it returns no error there.
Rel(base, targ) ==
    IF targ = base THEN "."
    ELSE Join(SubSeq(targ, Len(base) + 1, Len(targ)), "/")

WalkEntry(path, isDir, walkErr, file) ==
    [path |-> path, IsDir |-> isDir, err |-> walkErr, file |-> file]

\* Bytes that are not a JSON text.
Malformed == [kind |-> "malformed"]

\* The JSON document of plan p, as terraform show -json writes it: a parsed
\* JSON text is a value of the kinds nil, string, number, bool, list and
\* map.
PlanDocument(p) ==
    Map(("format_version" :> Str("1.2"))
        @@ ("terraform_version" :> Str(p.TerraformVersion))
        @@ ("resource_changes" :> List(
              [i \in 1..Len(p.ResourceChanges) |->
                 LET rc == p.ResourceChanges[i]
                 IN Map(("address" :> Str(rc.Address))
                        @@ ("type" :> Str("aws"))
                        @@ ("change" :> Map(
                              ("actions" :> List([j \in 1..Len(rc.Change.Actions) |->
                                                    Str(rc.Change.Actions[j])]))
                              @@ ("before" :> rc.Change.Before)
                              @@ ("after" :> rc.Change.After))))])))

\* What is behind a path: the step of readTerraformPlan before the decoding
\* that fails on it ("" for none) and the bytes read from it.
Source(failure, data) == [failure |-> failure, data |-> data]

\* The file of plan p, or of no plan: failure names the step of
\* readTerraformPlan that fails on it ("" for none); a file that fails to
\* parse holds bytes that are not JSON.
File(failure, p) ==
    Source(IF failure = "parse" THEN "" ELSE failure,
           IF p = None THEN Malformed ELSE PlanDocument(p))

\* A Go error value with its message; None is the nil error.
Error(msg) == [kind |-> "error", msg |-> msg]

\* The exit status of the process.
Exit(code) == [kind |-> "exit", code |-> code]

\* The output file with the bytes written to it.
Written(bytes) == [kind |-> "file", bytes |-> bytes]

\* The value of key k of a JSON object, the JSON null when the object has
\* no such key: the decoder leaves a struct field at its zero value in both
\* cases.
Field(m, k) == IF k \in DOMAIN m THEN m[k] ELSE Nil

\* A decoded value, or the failure to decode.
Decoded(val) == [ok |-> TRUE, val |-> val]
Undecodable == [ok |-> FALSE, val |-> None]

\* The zero values of the structs.
ZeroChange == [Actions |-> << >>, Before |-> Nil, After |-> Nil]
ZeroResourceChange == [Address |-> "", Change |-> ZeroChange]
ZeroPlan == [TerraformVersion |-> "", ResourceChanges |-> << >>]

\* json.Unmarshal of a value into a string field.
decodeString(v) ==
    IF v.kind = "nil" THEN Decoded("")
    ELSE IF v.kind = "string" THEN Decoded(v.s)
    ELSE Undecodable

\* json.Unmarshal of a value into Actions []string.
decodeActions(v) ==
    IF v.kind = "nil" THEN Decoded(<< >>)
    ELSE IF v.kind = "list" /\ \A i \in 1..Len(v.items) : decodeString(v.items[i]).ok
    THEN Decoded([i \in 1..Len(v.items) |-> decodeString(v.items[i]).val])
    ELSE Undecodable

\* json.Unmarshal of a value into a Change: Before and After are
\* interface{} and take any value.
decodeChange(v) ==
    IF v.kind = "nil" THEN Decoded(ZeroChange)
    ELSE IF v.kind = "map" /\ decodeActions(Field(v.m, "actions")).ok
    THEN Decoded([Actions |-> decodeActions(Field(v.m, "actions")).val,
                  Before |-> Field(v.m, "before"),
                  After |-> Field(v.m, "after")])
    ELSE Undecodable

\* json.Unmarshal of a value into a ResourceChange: the seven fields are
\* decoded, and those the program reads, Address and Change, are kept.
decodeResourceChange(v) ==
    IF v.kind = "nil" THEN Decoded(ZeroResourceChange)
    ELSE IF /\ v.kind = "map"
            /\ decodeString(Field(v.m, "address")).ok
            /\ decodeString(Field(v.m, "module_address")).ok
            /\ decodeString(Field(v.m, "mode")).ok
            /\ decodeString(Field(v.m, "type")).ok
            /\ decodeString(Field(v.m, "name")).ok
            /\ decodeString(Field(v.m, "provider_name")).ok
            /\ decodeChange(Field(v.m, "change")).ok
    THEN Decoded([Address |-> decodeString(Field(v.m, "address")).val,
                  Change |-> decodeChange(Field(v.m, "change")).val])
    ELSE Undecodable

\* json.Unmarshal of a value into ResourceChanges []ResourceChange.
decodeResourceChanges(v) ==
    IF v.kind = "nil" THEN Decoded(<< >>)
    ELSE IF v.kind = "list" /\ \A i \in 1..Len(v.items) : decodeResourceChange(v.items[i]).ok
    THEN Decoded([i \in 1..Len(v.items) |-> decodeResourceChange(v.items[i]).val])
    ELSE Undecodable

\* A decoder that rejects an object with a key the struct has no field for.
UnmarshalDisallowUnknownFields(data) ==
    IF data.kind = "malformed" THEN Undecodable
    ELSE IF data.kind = "nil" THEN Decoded(ZeroPlan)
    ELSE IF /\ data.kind = "map"
            /\ DOMAIN data.m \subseteq {"format_version", "terraform_version", "resource_changes"}
            /\ decodeString(Field(data.m, "format_version")).ok
            /\ decodeString(Field(data.m, "terraform_version")).ok
            /\ decodeResourceChanges(Field(data.m, "resource_changes")).ok
    THEN Decoded([TerraformVersion |-> decodeString(Field(data.m, "terraform_version")).val,
                  ResourceChanges |->
                     decodeResourceChanges(Field(data.m, "resource_changes")).val])
    ELSE Undecodable

\* json.Unmarshal(data, &plan): the plan, or the failure when the bytes are
\* not JSON or a value has not the type of its field.  The keys of the
\* model's documents are spelled as the struct tags are.
Unmarshal(data) ==
    IF data.kind = "malformed" THEN Undecodable
    ELSE IF data.kind = "nil" THEN Decoded(ZeroPlan)
    ELSE IF /\ data.kind = "map"
            /\ decodeString(Field(data.m, "format_version")).ok
            /\ decodeString(Field(data.m, "terraform_version")).ok
            /\ decodeResourceChanges(Field(data.m, "resource_changes")).ok
    THEN Decoded([TerraformVersion |-> decodeString(Field(data.m, "terraform_version")).val,
                  ResourceChanges |->
                     decodeResourceChanges(Field(data.m, "resource_changes")).val])
    ELSE Undecodable

\* readTerraformPlan(filename): the plan and the error it returns.  The
\* error of the failing step is wrapped; its own text is left out.
readTerraformPlan(file) ==
    LET result(decoded) ==
           IF ~decoded.ok
           THEN [plan |-> None, err |-> Error("failed to parse JSON")]
           ELSE [plan |-> decoded.val, err |-> None]
    IN IF file.failure = "open" THEN [plan |-> None, err |-> Error("failed to open file")]
       ELSE IF file.failure = "read" THEN [plan |-> None, err |-> Error("failed to read file")]
       ELSE result(Unmarshal(file.data))

\* A test that finds changes in every plan.
hasNoChangesNever(p) == FALSE

\* hasNoChanges(plan)
hasNoChanges(p) == Len(p.ResourceChanges) = 0

\* The label of the plan file at path.
relativePath(path) ==
    LET relPath == Rel(rootDir, Dir(path))
    IN IF relPath = "." THEN "root" ELSE relPath

\* A callback that hands the error of a plan file it cannot decode to the
\* walk.
walkFnFailingOnDecode(found, e) ==
    IF e.err THEN [plans |-> found, err |-> Error("walk"), stderr |-> << >>]
    ELSE IF ~e.IsDir /\ Name(e.path) = "tfplan.json"
    THEN LET r == readTerraformPlan(e.file)
         IN IF r.err # None
            THEN [plans |-> found, err |-> r.err,
                  stderr |-> <<"Warning: Failed to read plan file " \o Join(e.path, "/")
                               \o ": " \o r.err.msg \o "\n">>]
            ELSE IF hasNoChanges(r.plan) THEN [plans |-> found, err |-> None, stderr |-> << >>]
            ELSE [plans |-> Append(found, PlanInfo(r.plan, relativePath(e.path))),
                  err |-> None, stderr |-> << >>]
    ELSE [plans |-> found, err |-> None, stderr |-> << >>]

\* A callback that returns nil when the walk hands it an error.
walkFnIgnoringWalkError(found, e) ==
    IF e.err THEN [plans |-> found, err |-> None, stderr |-> << >>]
    ELSE IF ~e.IsDir /\ Name(e.path) = "tfplan.json"
    THEN LET r == readTerraformPlan(e.file)
         IN IF r.err # None
            THEN [plans |-> found, err |-> None,
                  stderr |-> <<"Warning: Failed to read plan file " \o Join(e.path, "/")
                               \o ": " \o r.err.msg \o "\n">>]
            ELSE IF hasNoChanges(r.plan) THEN [plans |-> found, err |-> None, stderr |-> << >>]
            ELSE [plans |-> Append(found, PlanInfo(r.plan, relativePath(e.path))),
                  err |-> None, stderr |-> << >>]
    ELSE [plans |-> found, err |-> None, stderr |-> << >>]

\* The callback handed to filepath.Walk, called for entry e when the plans
\* found so far are found: the plans after the call and the error it
\* returns to the walk, and what it writes to os.Stderr.
walkFn(found, e) ==
    IF e.err THEN [plans |-> found, err |-> Error("walk"), stderr |-> << >>]
    ELSE IF ~e.IsDir /\ Name(e.path) = "tfplan.json"
    THEN LET collect(r) ==
                IF r.err # None
                THEN [plans |-> found, err |-> None,
                      stderr |-> <<"Warning: Failed to read plan file " \o Join(e.path, "/")
                                   \o ": " \o r.err.msg \o "\n">>]
                ELSE IF hasNoChanges(r.plan)
                THEN [plans |-> found, err |-> None, stderr |-> << >>]
                ELSE [plans |-> Append(found, PlanInfo(r.plan, relativePath(e.path))),
                      err |-> None, stderr |-> << >>]
         IN collect(readTerraformPlan(e.file))
    ELSE [plans |-> found, err |-> None, stderr |-> << >>]

\* The labels of the model in the order of Go's < on strings.
LabelOrder == <<"env1", "env1/dev", "env2", "root">>

LabelRank(l) == CHOOSE i \in 1..Len(LabelOrder) : LabelOrder[i] = l

\* plans[i].RelativePath < plans[j].RelativePath
LabelLess(a, b) == LabelRank(a) < LabelRank(b)

\* sort.Slice on the plans: for the fewer than 12 plans of the model it is
\* an insertion sort.
RECURSIVE sinkLeftPlans(_, _)
sinkLeftPlans(planInfos, j) ==
    IF j > 1 /\ LabelLess(planInfos[j].RelativePath, planInfos[j - 1].RelativePath)
    THEN sinkLeftPlans([planInfos EXCEPT ![j] = planInfos[j - 1], ![j - 1] = planInfos[j]],
                       j - 1)
    ELSE planInfos

RECURSIVE insertionSortPlans(_, _)
insertionSortPlans(planInfos, i) ==
    IF i > Len(planInfos) THEN planInfos
    ELSE insertionSortPlans(sinkLeftPlans(planInfos, i), i + 1)

\* A test that finds plans in every list.
noPlansFoundNever(planInfos) == FALSE

\* len(plans) == 0 in main
noPlansFound(planInfos) == Len(planInfos) = 0

\* A sort that leaves the plans as the walk found them.
sortPlansNoop(planInfos) == planInfos

\* The sort of the plans by relative path.
sortPlans(planInfos) == insertionSortPlans(planInfos, 2)

(***************************************************************************)
(* Inputs of the differ: before/after with at most MaxKeys keys in all.    *)
(***************************************************************************)
DiffKeys == {"name", "family", "size", "id", "arn", "tags_all", "timeouts"}

\* The values a key takes in the inputs: strings, a JSON null, a number and
\* the string with the same digits, maps.
KeyValues(k) ==
    CASE k = "name" -> {Str("old"), Str("new")}
      [] k = "family" -> {Nil, Str("f1")}
      [] k = "size" -> {Num(1), Str("1")}
      [] k = "id" -> {Str("i-1"), Str("i-2")}
      [] k = "arn" -> {Str("arn:1"), Str("arn:2")}
      [] k = "tags_all" -> {Map(EmptyMap), Map("env" :> Str("dev"))}
      [] k = "timeouts" -> {Nil, Map("create" :> Str("5m"))}

\* m with key k bound to v, or m itself when v is None (key absent).
Bind(m, k, v) == IF v = None THEN m ELSE (k :> v) @@ m

\* All <<before map, after map>> whose keys are among K.
RECURSIVE MapPairs(_)
MapPairs(K) ==
    IF K = {} THEN {<<EmptyMap, EmptyMap>>}
    ELSE LET k == CHOOSE x \in K : TRUE
         IN {<<Bind(p[1], k, b), Bind(p[2], k, a)>> :
                p \in MapPairs(K \ {k}),
                b \in KeyValues(k) \cup {None},
                a \in KeyValues(k) \cup {None}}

\* before/after that are not maps: absent (null), a scalar, a sequence.
NonMaps == {Nil, Str("x"), List(<<Str("a")>>)}

MakeChange(actions, before, after) ==
    [Actions |-> actions, Before |-> before, After |-> after]

\* The inputs of the differ whose maps have at most n keys in all, as the
\* Change of a replaced resource.
DiffChanges(n) ==
    LET pairs == UNION {MapPairs(K) : K \in {S \in SUBSET DiffKeys : Cardinality(S) <= n}}
        someMap == Map("name" :> Str("old"))
    IN {MakeChange(<<"delete", "create">>, Map(p[1]), Map(p[2])) : p \in pairs}
       \cup {MakeChange(<<"delete", "create">>, b, a) : b \in NonMaps, a \in NonMaps \cup {someMap}}
       \cup {MakeChange(<<"delete", "create">>, someMap, a) : a \in NonMaps}

(***************************************************************************)
(* SpecDiff: the attribute differ and the replacement reason on one Change.*)
(***************************************************************************)
InitDiff ==
    /\ plan = None
    /\ summary = None
    /\ md = None
    /\ op = "init"
    /\ change = None
    /\ diff = None
    /\ reason = None
    /\ NoDirectory
    /\ NoCall

\* analyzeAttributeChanges(change) on any input of the universe.
AnalyzeAttributeChanges ==
    /\ op = "init"
    /\ \E c \in DiffChanges(MaxKeys) :
         \E order \in KeyOrders(allKeys(c)) :
            /\ change' = c
            /\ diff' = analyzeAttributeChanges(c, order)
    /\ reason' = None
    /\ op' = "analyzeAttributeChanges"
    /\ UNCHANGED <<plan, summary, md, dirVars, fnVars>>

\* determineReplaceReason(change) on the change diffed last: it runs the
\* differ again, with an iteration order of its own.
DetermineReplaceReason ==
    /\ op = "analyzeAttributeChanges"
    /\ \E order \in KeyOrders(allKeys(change)) :
         reason' = determineReplaceReason(change, order)
    /\ op' = "determineReplaceReason"
    /\ UNCHANGED <<plan, summary, md, change, diff, dirVars, fnVars>>

\* The loop over resource.Changes of an Update or Replace entry, on the
\* records the differ returned: one bullet per record.
WriteAttributeBullets ==
    /\ op = "analyzeAttributeChanges"
    /\ md' = AttributeBullets(diff)
    /\ op' = "attributeBullets"
    /\ UNCHANGED <<plan, summary, change, diff, reason, dirVars, fnVars>>

\* The before maps of a deleted resource: each of the identifying keys and
\* of one other key is absent, null or bound to a value.
DeleteKeyValues(k) ==
    CASE k = "name" -> {Nil, Str("web")}
      [] k = "id" -> {Nil, Str("i-1")}
      [] k = "family" -> {Nil, Str("f1")}
      [] k = "engine" -> {Nil, Str("mysql")}
      [] k = "size" -> {Nil, Num(1)}

RECURSIVE DeleteMaps(_)
DeleteMaps(K) ==
    IF K = {} THEN {EmptyMap}
    ELSE LET k == CHOOSE x \in K : TRUE
         IN {Bind(m, k, v) : m \in DeleteMaps(K \ {k}), v \in DeleteKeyValues(k) \cup {None}}

\* The Change of a deleted resource: after is null.
DeleteChanges ==
    {MakeChange(<<"delete">>, Map(m), Nil) : m \in DeleteMaps({"name", "id", "family", "engine", "size"})}
    \cup {MakeChange(<<"delete">>, b, Nil) : b \in NonMaps}

\* determineDeleteReason(change) on the Change of a deleted resource.
DetermineDeleteReason ==
    /\ op = "init"
    /\ \E c \in DeleteChanges :
          /\ change' = c
          /\ reason' = determineDeleteReason(c)
    /\ op' = "determineDeleteReason"
    /\ UNCHANGED <<plan, summary, md, diff, dirVars, fnVars>>

NextDiff ==
    \/ AnalyzeAttributeChanges
    \/ DetermineReplaceReason
    \/ WriteAttributeBullets
    \/ DetermineDeleteReason

SpecDiff == InitDiff /\ [][NextDiff]_vars

(***************************************************************************)
(* SpecAnalyze: analyzeResourceChanges on a plan of at most MaxChanges     *)
(* resource changes.                                                       *)
(***************************************************************************)
ActionLists ==
    {<< >>, <<"no-op">>, <<"read">>, <<"no-op", "read">>, <<"create">>, <<"update">>,
     <<"delete">>, <<"delete", "create">>, <<"create", "delete">>,
     <<"update", "create">>, <<"delete", "update">>}

\* The action lists of a delete and of a replace.
ReasonedActionLists == {<<"delete">>, <<"delete", "create">>}

\* before and after both maps, differing in one attribute.
ChangedShape == <<Map("name" :> Str("old")), Map("name" :> Str("new"))>>

\* <<before, after>> of the changes that get a reason: null before, null
\* after, a scalar before with a sequence after, and two maps differing in
\* two attributes.
ReasonedShapes ==
    {<<Nil, Map("name" :> Str("new"))>>,
     <<Map(("name" :> Str("old")) @@ ("id" :> Str("i-1"))), Nil>>,
     <<Str("x"), List(<<Str("a")>>)>>,
     <<Map(("name" :> Str("old")) @@ ("family" :> Str("f1"))),
       Map(("name" :> Str("new")) @@ ("family" :> Str("f2")))>>}

\* <<before, after>> of further replaced resources: two maps differing in
\* an attribute outside the priority list only, and in one of each.
ReplacedShapes ==
    {<<Map("size" :> Num(1)), Map("size" :> Num(2))>>,
     <<Map(("size" :> Num(1)) @@ ("engine" :> Str("mysql"))),
       Map(("size" :> Num(2)) @@ ("engine" :> Nil))>>}

\* The addresses of the resource changes of the inputs.
AnalyzeAddresses == {"aws_a.x", "aws_a.y", "aws_b.x"}

ResourceChange(address, c) == [Address |-> address, Change |-> c]

\* Every action list on the changed shape, every shape under the action
\* lists that get a reason, and the further shapes of a replace.
AnalyzeChanges ==
    {ResourceChange(a, MakeChange(acts, ChangedShape[1], ChangedShape[2])) :
        a \in AnalyzeAddresses, acts \in ActionLists}
    \cup {ResourceChange(a, MakeChange(acts, sh[1], sh[2])) :
        a \in AnalyzeAddresses, acts \in ReasonedActionLists, sh \in ReasonedShapes}
    \cup {ResourceChange(a, MakeChange(<<"delete", "create">>, sh[1], sh[2])) :
        a \in AnalyzeAddresses, sh \in ReplacedShapes}

\* All sequences over S of length at most n.
SeqsUpTo(S, n) == UNION {[1..k -> S] : k \in 0..n}

TerraformPlan(version, changes) ==
    [TerraformVersion |-> version, ResourceChanges |-> changes]

InitAnalyze ==
    /\ plan \in {TerraformPlan("1.9.8", cs) : cs \in SeqsUpTo(AnalyzeChanges, MaxChanges)}
    /\ summary = None
    /\ md = None
    /\ op = "init"
    /\ change = None
    /\ diff = None
    /\ reason = None
    /\ NoDirectory
    /\ NoCall

\* analyzeResourceChanges(plan.ResourceChanges)
AnalyzeResourceChanges ==
    /\ op = "init"
    /\ \E orders \in ChangeOrders(plan.ResourceChanges) :
          summary' = analyzeResourceChanges(plan.ResourceChanges, orders)
    /\ op' = "analyzeResourceChanges"
    /\ UNCHANGED <<plan, md, change, diff, reason, dirVars, fnVars>>

NextAnalyze == AnalyzeResourceChanges

SpecAnalyze == InitAnalyze /\ [][NextAnalyze]_vars

(***************************************************************************)
(* Spec: the single-plan pipeline, generateMarkdownComment on one plan.    *)
(***************************************************************************)
\* The resource changes of the plans: a create, updates (of two attributes,
\* of skip-set keys and composite values, and of nothing), replaces (of two
\* priority attributes, and with no diff), a delete, a no-op and a read, and
\* a create and a delete whose before and after are both maps.
RenderChanges ==
    {ResourceChange("aws_a.x", MakeChange(<<"create">>, Nil, Map("name" :> Str("new")))),
     ResourceChange("aws_a.y", MakeChange(<<"update">>,
        Map(("size" :> Num(1)) @@ ("tags" :> Map(EmptyMap))),
        Map(("size" :> Num(2)) @@ ("tags" :> Nil)))),
     ResourceChange("aws_b.x", MakeChange(<<"update">>,
        Map(("id" :> Str("i-1")) @@ ("engine" :> Str(""))),
        Map(("id" :> Str("i-2")) @@ ("tags" :> List(<<Str("a")>>))))),
     ResourceChange("aws_a.x", MakeChange(<<"update">>,
        Map("size" :> Num(1)), Map("size" :> Str("1")))),
     ResourceChange("aws_b.x", MakeChange(<<"delete", "create">>,
        Map(("name" :> Str("old")) @@ ("family" :> Str("f1"))),
        Map(("name" :> Str("new")) @@ ("family" :> Str("f2"))))),
     ResourceChange("aws_a.y", MakeChange(<<"create", "delete">>, Nil, Nil)),
     ResourceChange("aws_a.x", MakeChange(<<"delete">>,
        Map(("name" :> Str("old")) @@ ("id" :> Str("i-1"))), Nil)),
     ResourceChange("aws_b.x", MakeChange(<<"no-op">>,
        Map("name" :> Str("old")), Map("name" :> Str("old")))),
     ResourceChange("aws_a.y", MakeChange(<<"read">>, Nil, Map("name" :> Str("new")))),
     ResourceChange("aws_b.x", MakeChange(<<"create">>,
        Map("size" :> Num(1)), Map("size" :> Num(2)))),
     ResourceChange("aws_a.y", MakeChange(<<"delete">>,
        Map(("name" :> Str("old")) @@ ("size" :> Num(1))), Map("size" :> Num(2))))}

Versions == {"1.9.8", "1.5.7"}

Init ==
    /\ plan \in {TerraformPlan(v, cs) :
                    v \in Versions, cs \in SeqsUpTo(RenderChanges, MaxChanges)}
    /\ summary = None
    /\ md = None
    /\ op = "init"
    /\ change = None
    /\ diff = None
    /\ reason = None
    /\ NoDirectory
    /\ NoCall

\* One call of generateMarkdownComment(plan): the classification of line 445
\* and the rendering of its summary.  The function may be called again on
\* the same plan; each call draws its own iteration orders.  summary is the
\* summary as the rendering left it.
GenerateMarkdownComment ==
    /\ \E orders \in ChangeOrders(plan.ResourceChanges) :
       \E rendered \in {renderSummary(
                           analyzeResourceChanges(plan.ResourceChanges, orders), plan)} :
          /\ summary' = rendered.summary
          /\ md' = rendered.md
    /\ op' = "generateMarkdownComment"
    /\ UNCHANGED <<plan, change, diff, reason, dirVars, fnVars>>

Next == GenerateMarkdownComment

Spec == Init /\ [][Next]_vars

(***************************************************************************)
(* SpecMulti: generateMultiPlanMarkdownComment on at most MaxPlans plans.  *)
(***************************************************************************)
\* The plans handed to the renderer: without resource changes; with a no-op
\* and a read only; with a create and an update that adds one attribute and
\* removes another; with a replace and a delete; with an update the differ
\* finds nothing in.  Three Terraform versions.
PlanCatalogue ==
    {TerraformPlan("1.9.8", << >>),
     TerraformPlan("1.5.7", <<
        ResourceChange("aws_b.x", MakeChange(<<"no-op">>,
            Map("name" :> Str("old")), Map("name" :> Str("old")))),
        ResourceChange("aws_a.y", MakeChange(<<"read">>, Nil, Map("name" :> Str("new"))))>>),
     TerraformPlan("1.9.8", <<
        ResourceChange("aws_a.y", MakeChange(<<"update">>,
            Map("size" :> Num(1)), Map("tags" :> Map(EmptyMap)))),
        ResourceChange("aws_a.x", MakeChange(<<"create">>, Nil, Map("name" :> Str("new"))))>>),
     TerraformPlan("1.5.7", <<
        ResourceChange("aws_b.x", MakeChange(<<"delete", "create">>,
            Map("name" :> Str("old")), Map("name" :> Str("new")))),
        ResourceChange("aws_a.x", MakeChange(<<"delete">>,
            Map(("name" :> Str("old")) @@ ("id" :> Str("i-1"))), Nil))>>),
     TerraformPlan("1.7.0", <<
        ResourceChange("aws_a.x", MakeChange(<<"update">>,
            Map("size" :> Num(1)), Map("size" :> Str("1"))))>>)}

\* The labels of the plans.
MultiLabels == {"env1", "env2", "root"}

MultiPlanInfos == {PlanInfo(p, l) : p \in PlanCatalogue, l \in MultiLabels}

InitMulti ==
    /\ plans \in SeqsUpTo(MultiPlanInfos, MaxPlans)
    /\ plan = None
    /\ summary = None
    /\ md = None
    /\ op = "init"
    /\ change = None
    /\ diff = None
    /\ reason = None
    /\ versions = None
    /\ walk = None
    /\ visited = None
    /\ err = None
    /\ outputFile = None
    /\ exitCode = None
    /\ stderr = None
    /\ NoCall

\* One run of generateMultiPlanMarkdownComment(plans).  versions is what
\* allTerraformVersions holds when the accumulation loop is over.
GenerateMultiPlanMarkdownComment ==
    /\ op = "init"
    /\ \E accOrders \in PlanOrders(plans) : \E envOrders \in PlanOrders(plans) :
          /\ md' = generateMultiPlanMarkdownComment(plans, accOrders, envOrders)
          /\ versions' = accumulate(plans, accOrders, Len(plans)).allTerraformVersions
    /\ op' = "generateMultiPlanMarkdownComment"
    /\ UNCHANGED <<plan, summary, change, diff, reason, plans, walk, visited, err,
                   outputFile, exitCode, stderr, fnVars>>

NextMulti == GenerateMultiPlanMarkdownComment

SpecMulti == InitMulti /\ [][NextMulti]_vars

(***************************************************************************)
(* SpecDir: directory mode, main on a directory whose walk visits at most  *)
(* MaxEntries entries.                                                     *)
(***************************************************************************)
\* The plans behind the files: with a create, with a delete, without
\* resource changes, with a no-op only.
CreatePlan ==
    TerraformPlan("1.9.8", <<
        ResourceChange("aws_a.x", MakeChange(<<"create">>, Nil, Map("name" :> Str("new"))))>>)

DeletePlan ==
    TerraformPlan("1.5.7", <<
        ResourceChange("aws_b.x", MakeChange(<<"delete">>, Map("name" :> Str("old")), Nil))>>)

EmptyPlan == TerraformPlan("1.9.8", << >>)

NoopPlan ==
    TerraformPlan("1.9.8", <<
        ResourceChange("aws_a.y", MakeChange(<<"no-op">>,
            Map("name" :> Str("old")), Map("name" :> Str("old"))))>>)

\* A file named tfplan.json in directory dir under the root.
PlanFile(dir, file) == WalkEntry(rootDir \o dir \o <<"tfplan.json">>, FALSE, FALSE, file)

\* The entries a walk may visit: plan files in the root, in env1, env2,
\* env1/dev and in a directory named root, that decode or fail at one of
\* the three steps; a file of another name; a directory named tfplan.json;
\* a directory the walk cannot read.
WalkEntries ==
    {PlanFile(<< >>, File("", CreatePlan)),
     PlanFile(<< >>, File("parse", None)),
     PlanFile(<<"env1">>, File("", CreatePlan)),
     PlanFile(<<"env1">>, File("open", None)),
     PlanFile(<<"env1">>, File("", NoopPlan)),
     PlanFile(<<"env2">>, File("", DeletePlan)),
     PlanFile(<<"env2">>, File("", EmptyPlan)),
     PlanFile(<<"env2">>, File("read", None)),
     PlanFile(<<"root">>, File("", CreatePlan)),
     PlanFile(<<"env1", "dev">>, File("", DeletePlan)),
     WalkEntry(rootDir \o <<"env1", "main.tf">>, FALSE, FALSE, File("", CreatePlan)),
     WalkEntry(rootDir \o <<"mods", "tfplan.json">>, TRUE, FALSE, None),
     WalkEntry(rootDir \o <<"env3">>, TRUE, TRUE, None)}

\* A walk visits a path once, and the entry it fails on is the last one the
\* callback is called for, the callback returning the error.
RealWalk(w) ==
    /\ \A i, j \in 1..Len(w) : (i # j) => w[i].path # w[j].path
    /\ \A i \in 1..(Len(w) - 1) : ~w[i].err

InitDir ==
    /\ walk \in {w \in SeqsUpTo(WalkEntries, MaxEntries) : RealWalk(w)}
    /\ visited = 0
    /\ plans = << >>
    /\ err = None
    /\ versions = None
    /\ outputFile = None
    /\ exitCode = None
    /\ stderr = << >>
    /\ NoCall
    /\ plan = None
    /\ summary = None
    /\ md = None
    /\ op = "init"
    /\ change = None
    /\ diff = None
    /\ reason = None

\* filepath.Walk calls the callback for the next entry; it goes on while
\* the callback returns nil.
WalkFn ==
    /\ op \in {"init", "walkFn"}
    /\ err = None
    /\ visited < Len(walk)
    /\ \E r \in {walkFn(plans, walk[visited + 1])} :
          /\ plans' = r.plans
          /\ err' = r.err
          /\ stderr' = stderr \o r.stderr
    /\ visited' = visited + 1
    /\ op' = "walkFn"
    /\ UNCHANGED <<plan, summary, md, change, diff, reason, versions, walk,
                   outputFile, exitCode, fnVars>>

\* findAndReadPlanFiles after filepath.Walk returned: nil and the wrapped
\* error, or the plans sorted.
FindAndReadPlanFiles ==
    /\ op \in {"init", "walkFn"}
    /\ err # None \/ visited = Len(walk)
    /\ IF err # None
       THEN /\ plans' = None
            /\ err' = Error("error walking directory: " \o err.msg)
       ELSE /\ plans' = sortPlans(plans)
            /\ err' = None
    /\ op' = "findAndReadPlanFiles"
    /\ UNCHANGED <<plan, summary, md, change, diff, reason, versions, walk, visited,
                   outputFile, exitCode, stderr, fnVars>>

\* main in directory mode after findAndReadPlanFiles returned: exit on its
\* error, exit on an empty list, else render the plans and write the file.
MainDirectory ==
    /\ op = "findAndReadPlanFiles"
    /\ IF err # None
       THEN /\ stderr' = Append(stderr, "Error processing directory: " \o err.msg \o "\n")
            /\ exitCode' = Exit(1)
            /\ UNCHANGED <<md, versions, outputFile>>
       ELSE IF noPlansFound(plans)
       THEN /\ stderr' = Append(stderr, "No tfplan.json files found in directory: "
                                          \o Join(rootDir, "/") \o "\n")
            /\ exitCode' = Exit(1)
            /\ UNCHANGED <<md, versions, outputFile>>
       ELSE \E accOrders \in PlanOrders(plans) : \E envOrders \in PlanOrders(plans) :
            \E written \in BOOLEAN :
               /\ md' = generateMultiPlanMarkdownComment(plans, accOrders, envOrders)
               /\ versions' = accumulate(plans, accOrders, Len(plans)).allTerraformVersions
               /\ outputFile' = IF written THEN Written(Bytes(md')) ELSE None
               /\ exitCode' = IF written THEN Exit(0) ELSE Exit(1)
               /\ stderr' = IF written THEN stderr
                            ELSE Append(stderr, "Error writing output file\n")
    /\ op' = "main"
    /\ UNCHANGED <<plan, summary, change, diff, reason, plans, walk, visited, err, fnVars>>

NextDir == WalkFn \/ FindAndReadPlanFiles \/ MainDirectory

SpecDir == InitDir /\ [][NextDir]_vars

(***************************************************************************)
(* SpecRead: readTerraformPlan on one source.                              *)
(***************************************************************************)
\* The elements of resource_changes: a resource change with a field the
\* struct does not have, one with a null among its actions and no address,
\* an empty object, a null, and elements with a value of the wrong type (a
\* number for the element, for the address, a string for the change, for
\* the actions, a number among the actions).
ElementDocuments ==
    {Map(("address" :> Str("aws_a.x")) @@ ("mode" :> Str("managed"))
         @@ ("change" :> Map(("actions" :> List(<<Str("create")>>))
                             @@ ("before" :> Nil)
                             @@ ("after" :> Map("name" :> Str("new")))))),
     Map("change" :> Map(("actions" :> List(<<Str("delete"), Nil>>))
                         @@ ("before" :> Map("size" :> Num(1))))),
     Map(EmptyMap),
     Nil,
     Num(1),
     Map("address" :> Num(7)),
     Map("change" :> Str("x")),
     Map("change" :> Map("actions" :> Str("create"))),
     Map("change" :> Map("actions" :> List(<<Num(1)>>))),
     Map("mode" :> Num(1)),
     Map(("address" :> Str("aws_b.x")) @@ ("name" :> Map(EmptyMap))
         @@ ("change" :> Map("actions" :> List(<<Str("create")>>))))}

\* The JSON texts read: not JSON; a null, a string, a list, a number; and
\* objects with terraform_version absent, null, a string or a number, with
\* resource_changes absent, null, a string, an object or a list of at most
\* n elements, and with or without a key the struct has no field for.
Documents(n) ==
    {Malformed, Nil, Str("x"), List(<< >>), Num(1)}
    \cup {Map(Bind(Bind(Bind(EmptyMap, "terraform_version", v), "resource_changes", c),
                   "timestamp", x)) :
            v \in {None, Nil, Str("1.9.8"), Num(5)},
            c \in {None, Nil, Str("x"), Map(EmptyMap)}
                  \cup {List(l) : l \in SeqsUpTo(ElementDocuments, n)},
            x \in {None, Str("2024")}}

\* The sources: a file that cannot be opened, one that cannot be read, and
\* the files that hold the documents.
Sources(n) ==
    {Source("open", Malformed), Source("read", Malformed)}
    \cup {Source("", d) : d \in Documents(n)}

InitRead ==
    /\ input \in Sources(MaxChanges)
    /\ output = None
    /\ plan = None
    /\ summary = None
    /\ md = None
    /\ op = "init"
    /\ change = None
    /\ diff = None
    /\ reason = None
    /\ NoDirectory

\* readTerraformPlan(filename)
ReadTerraformPlan ==
    /\ op = "init"
    /\ output' = readTerraformPlan(input)
    /\ op' = "readTerraformPlan"
    /\ UNCHANGED <<plan, summary, md, change, diff, reason, dirVars, input>>

\* main on a path that is not a directory: readTerraformPlan, then
\* generateMarkdownComment and os.WriteFile, which succeeds or fails.  What
\* main prints to standard output is left out.
MainFile ==
    /\ op = "init"
    /\ \E read \in {readTerraformPlan(input)} :
          IF read.err # None
          THEN /\ stderr' = <<"Error reading plan file: " \o read.err.msg \o "\n">>
               /\ exitCode' = Exit(1)
               /\ UNCHANGED <<plan, summary, md, outputFile>>
          ELSE \E orders \in ChangeOrders(read.plan.ResourceChanges) :
               \E written \in BOOLEAN :
               \E rendered \in {renderSummary(
                      analyzeResourceChanges(read.plan.ResourceChanges, orders),
                      read.plan)} :
                  /\ plan' = read.plan
                  /\ summary' = rendered.summary
                  /\ md' = rendered.md
                  /\ outputFile' = IF written THEN Written(Bytes(md')) ELSE None
                  /\ exitCode' = IF written THEN Exit(0) ELSE Exit(1)
                  /\ stderr' = IF written THEN << >>
                               ELSE <<"Error writing output file\n">>
    /\ op' = "main"
    /\ UNCHANGED <<change, diff, reason, plans, versions, walk, visited, err, fnVars>>

\* main ending before it reads anything.  flag.Parse (line 80) runs first:
\* the command line defines only -version and -help and flag.CommandLine has
\* ExitOnError, so a flag that is not defined, or a value that is no boolean,
\* writes the error and the default usage to os.Stderr and exits with status
\* 2, and -h writes the default usage to os.Stderr and exits with status 0
\* (io.ReadAll and os.WriteFile need Go 1.16, where -h exits with 0).  Then
\* -version and -help print to os.Stdout and exit with status 0; no argument
\* prints the usage to os.Stdout and exits with status 1; a path os.Stat
\* fails on exits with status 1 after a message.  The default usage names
\* the program as os.Args[0], here tfplan-commenter, and lists the flags in
\* the order of their names.
MainEarlyExit ==
    /\ op = "init"
    /\ LET usage == <<"Usage of tfplan-commenter:\n",
                      "  -help\n    \tShow help information\n",
                      "  -version\n    \tShow version information\n">>
       IN \E how \in {"undefined", "invalid", "h", "version", "help", "usage", "stat"} :
          \E name \in {"x", "v", "verbose"} :
             /\ exitCode' = Exit(CASE how \in {"undefined", "invalid"} -> 2
                                   [] how \in {"h", "version", "help"} -> 0
                                   [] OTHER -> 1)
             /\ stderr' =
                   CASE how = "undefined" ->
                          <<"flag provided but not defined: -" \o name \o "\n">> \o usage
                     [] how = "invalid" ->
                          <<"invalid boolean value \"maybe\" for -version: parse error\n">>
                          \o usage
                     [] how = "h" -> usage
                     [] how = "stat" -> <<"Error accessing input path\n">>
                     [] OTHER -> << >>
    /\ op' = "main"
    /\ UNCHANGED <<plan, summary, md, change, diff, reason, plans, versions, walk,
                   visited, err, outputFile, fnVars>>

NextRead == ReadTerraformPlan \/ MainFile \/ MainEarlyExit

SpecRead == InitRead /\ [][NextRead]_vars

(***************************************************************************)
(* SpecFormat: formatResourceList and formatAttributeValue on one          *)
(* argument.                                                               *)
(***************************************************************************)
\* The buckets of at most n resources.
FormatBuckets(n) ==
    SeqsUpTo({ResourceDetail(a, << >>, "") : a \in AnalyzeAddresses}, n)

\* The values: scalars, the sequences of at most n items that are
\* strings or null, and the mappings of at most two keys.
FormatValues(n) ==
    {Nil, Str(""), Str("new"), Str("a b"), Num(0), Num(42), Bool(TRUE), Bool(FALSE)}
    \cup {List(items) : items \in SeqsUpTo({Str("a"), Nil}, n)}
    \cup {Map(EmptyMap), Map("name" :> Str("a")), Map("size" :> Nil),
          Map(("name" :> Str("a")) @@ ("size" :> Num(1)))}

InitFormat ==
    /\ input = None
    /\ output = None
    /\ plan = None
    /\ summary = None
    /\ md = None
    /\ op = "init"
    /\ change = None
    /\ diff = None
    /\ reason = None
    /\ NoDirectory

\* formatResourceList(resources, 3)
FormatResourceList ==
    /\ op = "init"
    /\ \E resources \in FormatBuckets(MaxList) :
          /\ input' = resources
          /\ output' = Written(formatResourceList(resources, MaxDisplay))
    /\ op' = "formatResourceList"
    /\ UNCHANGED <<plan, summary, md, change, diff, reason, dirVars>>

\* formatAttributeValue(val)
FormatAttributeValue ==
    /\ op = "init"
    /\ \E val \in FormatValues(MaxList) :
          /\ input' = val
          /\ output' = Written(formatAttributeValue(val))
    /\ op' = "formatAttributeValue"
    /\ UNCHANGED <<plan, summary, md, change, diff, reason, dirVars>>

NextFormat == FormatResourceList \/ FormatAttributeValue

SpecFormat == InitFormat /\ [][NextFormat]_vars

(***************************************************************************)
(* Claims about the pipeline (checked under Spec).                         *)
(***************************************************************************)
\* C9: a second run of generateMarkdownComment on the same plan writes the
\* same bytes as the run before it.
C9_PipelineDeterministic ==
    [][(op # "init" /\ op' = "generateMarkdownComment" /\ plan' = plan)
          => Bytes(md') = Bytes(md)]_vars

\* A rendering of the summary is in md.
Rendered == op = "generateMarkdownComment"

\* Other plans generateMarkdownComment may be called on, of the version of
\* plan p: its resource changes in the opposite order, with a no-op change
\* after them, with a read before them, and with every list of actions in
\* the opposite order.
OtherInputs(p) ==
    LET cs == p.ResourceChanges
        n == Len(cs)
        noOp == [Address |-> "aws_b.x",
                 Change |-> MakeChange(<<"no-op">>, Map("name" :> Str("old")),
                                       Map("name" :> Str("old")))]
        read == [Address |-> "aws_a.y",
                 Change |-> MakeChange(<<"read">>, Nil, Map("name" :> Str("new")))]
        backwards(q) == [i \in 1..Len(q) |-> q[Len(q) + 1 - i]]
    IN {[p EXCEPT !.ResourceChanges = other] :
           other \in {backwards(cs), Append(cs, noOp), <<read>> \o cs,
                      [i \in 1..n |->
                          [cs[i] EXCEPT !.Change.Actions = backwards(@)]]}}

\* The calls on plan q that classify it to summary s, each by the iteration
\* orders it draws.
CallsGiving(q, s) ==
    {o \in ChangeOrders(q.ResourceChanges) :
        analyzeResourceChanges(q.ResourceChanges, o) = s}

\* The summary in the state is one the classification of the plan returns:
\* the rendering left it as it was.
SummaryAsClassified == CallsGiving(plan, summary) # {}

TableRows ==
    LET close == CHOOSE i \in 5..Len(md) :
                    md[i] = "\n" /\ \A j \in 5..(i - 1) : md[j] # "\n"
    IN SubSeq(md, 5, close - 1)

RowLabels ==
    [Create |-> ":green_circle: **Create**", Update |-> ":yellow_circle: **Update**",
     Replace |-> ":arrows_counterclockwise: **Replace**", Delete |-> ":red_circle: **Delete**"]

\* The text of the row of bucket b with c in its Count cell.
RowText(b, c) ==
    "| " \o RowLabels[b] \o " | " \o ToString(c) \o " | "
    \o formatResourceList(summary[b], MaxDisplay) \o " |\n"

IsRow(row) == \E b \in DOMAIN RowLabels : \E c \in 0..(MaxChanges + 1) : row = RowText(b, c)

\* The number in the Count cell of a row.
CountCell(row) ==
    CHOOSE c \in 0..(MaxChanges + 1) : \E b \in DOMAIN RowLabels : row = RowText(b, c)

RECURSIVE SumCounts(_)
SumCounts(rows) == IF rows = << >> THEN 0 ELSE CountCell(Head(rows)) + SumCounts(Tail(rows))

SummaryTotal ==
    Len(summary.Create) + Len(summary.Update) + Len(summary.Delete) + Len(summary.Replace)

\* C11: when at least one resource is classified, the number on the "Total
\* resources affected" line is the sum of the four bucket sizes, and the
\* Count cells of the table rows written add up to the same number.
C11_TotalIsSumOfBuckets ==
    (Rendered /\ SummaryTotal > 0) =>
        /\ md[2] = "**Total resources affected:** " \o ToString(SummaryTotal) \o "\n\n"
        /\ \A i \in 1..Len(TableRows) : IsRow(TableRows[i])
        /\ SumCounts(TableRows) = SummaryTotal

\* A plan of a replace and an update was rendered: two rows of count 1.
C11_Witness ==
    /\ op = "generateMarkdownComment"
    /\ Len(summary.Replace) = 1 /\ Len(summary.Update) = 1
    /\ Len(TableRows) = 2
    /\ md[2] = "**Total resources affected:** 2\n\n"

\* No resource change of the plan has create, update or delete among its
\* actions (the plan may have no resource change at all).
NothingToClassify ==
    \A i \in 1..Len(plan.ResourceChanges) :
        \A a \in {"create", "update", "delete"} :
            ~containsAction(plan.ResourceChanges[i].Change.Actions, a)

\* C12: for a plan with nothing to classify the Markdown is the header and
\* the "No changes detected" sentence and nothing else: no table, no detail
\* section, no footer.
C12_NoChangesOnly ==
    (Rendered /\ NothingToClassify) =>
        /\ md = <<"## :clipboard: Terraform Plan Summary\n\n",
                  ":white_check_mark: **No changes detected** - Infrastructure is up to date!\n\n">>
        /\ \A i \in 1..Len(md) :
              md[i] \notin {"| Action | Count | Resources |\n", "---\n",
                            "*Generated from Terraform " \o plan.TerraformVersion \o " plan*\n"}

\* A plan of a no-op and a read was rendered.
C12_Witness ==
    /\ op = "generateMarkdownComment"
    /\ Len(plan.ResourceChanges) = 2
    /\ plan.ResourceChanges[1].Change.Actions = <<"no-op">>
    /\ plan.ResourceChanges[2].Change.Actions = <<"read">>
    /\ Len(md) = 2

(***************************************************************************)
(* Claims about the classifier (checked under SpecAnalyze).                *)
(***************************************************************************)
Analyzed == op = "analyzeResourceChanges"

Buckets == {"Create", "Update", "Delete", "Replace"}

\* The bucket the claimed precedence gives an action list ("" for none),
\* read off the set of its actions.
ClaimedBucket(actions) ==
    LET has == {actions[i] : i \in 1..Len(actions)}
    IN IF {"create", "delete"} \subseteq has THEN "Replace"
       ELSE IF "create" \in has THEN "Create"
       ELSE IF "update" \in has THEN "Update"
       ELSE IF "delete" \in has THEN "Delete"
       ELSE ""

\* The number of entries of bucket b with address a.
EntriesAt(b, a) == Cardinality({i \in 1..Len(summary[b]) : summary[b][i].Address = a})

\* The number of input resource changes with address a that the claimed
\* precedence sends to bucket b.
InputsFor(b, a) ==
    Cardinality({i \in 1..Len(plan.ResourceChanges) :
        /\ plan.ResourceChanges[i].Address = a
        /\ ClaimedBucket(plan.ResourceChanges[i].Change.Actions) = b})

\* C1: every resource change is in the bucket the precedence Replace,
\* Create, Update, Delete gives it and in no other: per bucket and address,
\* the bucket holds as many entries as there are such inputs.
C1_BucketByPrecedence ==
    Analyzed => \A b \in Buckets : \A a \in AnalyzeAddresses : EntriesAt(b, a) = InputsFor(b, a)

\* A change with actions <<"update", "create">> went to Create alone, next
\* to a change with actions <<"create">>.
C1_Witness ==
    /\ Analyzed
    /\ Len(plan.ResourceChanges) = 2
    /\ plan.ResourceChanges[1].Change.Actions = <<"update", "create">>
    /\ plan.ResourceChanges[2].Change.Actions = <<"create">>
    /\ Len(summary.Create) = 2
    /\ Len(summary.Update) = 0 /\ Len(summary.Delete) = 0 /\ Len(summary.Replace) = 0

\* The input resource changes whose actions hold create, update or delete.
Classifiable ==
    {i \in 1..Len(plan.ResourceChanges) :
        \E j \in 1..Len(plan.ResourceChanges[i].Change.Actions) :
            plan.ResourceChanges[i].Change.Actions[j] \in {"create", "update", "delete"}}

\* C2: the four buckets hold together exactly as many entries as there are
\* input changes with create, update or delete among their actions, in all
\* and per address; the other changes are in no bucket, and the empty plan
\* gives four empty buckets.
C2_CountConservation ==
    Analyzed =>
        /\ Len(summary.Create) + Len(summary.Update) + Len(summary.Delete)
              + Len(summary.Replace) = Cardinality(Classifiable)
        /\ \A a \in AnalyzeAddresses :
              EntriesAt("Create", a) + EntriesAt("Update", a) + EntriesAt("Delete", a)
                + EntriesAt("Replace", a)
              = Cardinality({i \in Classifiable : plan.ResourceChanges[i].Address = a})
        /\ (plan.ResourceChanges = << >>) => summary = EmptySummary

\* A plan of a no-op/read change and a delete: one entry in all.
C2_Witness ==
    /\ Analyzed
    /\ Len(plan.ResourceChanges) = 2
    /\ plan.ResourceChanges[1].Change.Actions = <<"no-op", "read">>
    /\ plan.ResourceChanges[2].Change.Actions = <<"delete">>
    /\ Len(summary.Delete) = 1
    /\ Len(summary.Create) = 0 /\ Len(summary.Update) = 0 /\ Len(summary.Replace) = 0

\* C3: every entry of the Replace and of the Delete bucket has a force
\* reason that is not the empty string.
C3_ReasonNotEmpty ==
    Analyzed =>
        /\ \A i \in 1..Len(summary.Replace) : summary.Replace[i].ForceReason # ""
        /\ \A i \in 1..Len(summary.Delete) : summary.Delete[i].ForceReason # ""

\* A delete and a replace (delete listed first) of resources whose before
\* is a scalar: both got a reason.
C3_Witness ==
    /\ Analyzed
    /\ Len(plan.ResourceChanges) = 2
    /\ plan.ResourceChanges[1].Change.Actions = <<"delete">>
    /\ plan.ResourceChanges[2].Change.Actions = <<"delete", "create">>
    /\ \A i \in 1..2 : plan.ResourceChanges[i].Change.Before = Str("x")
    /\ Len(summary.Delete) = 1 /\ summary.Delete[1].ForceReason = "Resource marked for deletion"
    /\ Len(summary.Replace) = 1
    /\ summary.Replace[1].ForceReason = "Resource configuration requires replacement"

\* C4: every bucket is in ascending order of address.
C4_BucketsSorted ==
    Analyzed =>
        \A b \in Buckets : \A i, j \in 1..Len(summary[b]) :
            i < j => AddressRank(summary[b][i].Address) <= AddressRank(summary[b][j].Address)

\* Two updates given in descending order of address came out ascending.
C4_Witness ==
    /\ Analyzed
    /\ Len(plan.ResourceChanges) = 2
    /\ plan.ResourceChanges[1].Address = "aws_b.x"
    /\ plan.ResourceChanges[2].Address = "aws_a.y"
    /\ Len(summary.Update) = 2
    /\ summary.Update[1].Address = "aws_a.y" /\ summary.Update[2].Address = "aws_b.x"

(***************************************************************************)
(* Claims about the attribute differ (checked under SpecDiff).             *)
(***************************************************************************)
SkipSet == {"id", "arn", "tags_all", "timeouts"}

\* The differ has returned for the current change.
Diffed == op \in {"analyzeAttributeChanges", "determineReplaceReason", "attributeBullets"}

BothMaps == IsMap(change.Before) /\ IsMap(change.After)

\* The records of diff about attribute k.
RecordsOf(k) == {i \in 1..Len(diff) : diff[i].Attribute = k}

\* C5: with before and after both maps, a key outside the skip set gets at
\* most one record: added -> is_new with before nil; removed -> is_removed
\* with after nil; in both with different renderings -> a plain record with
\* both values; in both with the same rendering (whatever the types) -> no
\* record.  No record has is_new and is_removed both set.
C5_DiffRules ==
    (Diffed /\ BothMaps) =>
        LET b == change.Before.m
            a == change.After.m
        IN /\ \A k \in (DOMAIN b \cup DOMAIN a) \ SkipSet :
                /\ Cardinality(RecordsOf(k)) <= 1
                /\ (k \notin DOMAIN b) =>
                      \E i \in RecordsOf(k) :
                         diff[i] = [Attribute |-> k, Before |-> Nil, After |-> a[k],
                                    IsNew |-> TRUE, IsRemoved |-> FALSE]
                /\ (k \notin DOMAIN a) =>
                      \E i \in RecordsOf(k) :
                         diff[i] = [Attribute |-> k, Before |-> b[k], After |-> Nil,
                                    IsNew |-> FALSE, IsRemoved |-> TRUE]
                /\ (k \in DOMAIN b /\ k \in DOMAIN a /\ Sprintv(b[k]) # Sprintv(a[k])) =>
                      \E i \in RecordsOf(k) :
                         diff[i] = [Attribute |-> k, Before |-> b[k], After |-> a[k],
                                    IsNew |-> FALSE, IsRemoved |-> FALSE]
                /\ (k \in DOMAIN b /\ k \in DOMAIN a /\ Sprintv(b[k]) = Sprintv(a[k])) =>
                      RecordsOf(k) = {}
           /\ \A i \in 1..Len(diff) : ~(diff[i].IsNew /\ diff[i].IsRemoved)

\* A number became the string with the same rendering (no record) while
\* another key was added (one is_new record).
C5_Witness ==
    /\ Diffed /\ BothMaps
    /\ "size" \in DOMAIN change.Before.m /\ "size" \in DOMAIN change.After.m
    /\ change.Before.m["size"] = Num(1) /\ change.After.m["size"] = Str("1")
    /\ "name" \notin DOMAIN change.Before.m /\ "name" \in DOMAIN change.After.m
    /\ Len(diff) = 1 /\ diff[1].IsNew

\* Every bullet the renderer could write about key k with the values v the
\* key takes: added, removed and changed.
BulletTextsOf(k, V) ==
    {"- **" \o k \o "**: " \o formatAttributeValue(v) \o " *(new)*\n" : v \in V}
    \cup {"- **" \o k \o "**: " \o formatAttributeValue(v) \o " *(removed)*\n" : v \in V}
    \cup {"- **" \o k \o "**: " \o formatAttributeValue(b) \o " -> "
              \o formatAttributeValue(a) \o "\n" : b \in V, a \in V}

\* C6: no record of the differ is about id, arn, tags_all or timeouts,
\* whether the key was added, removed or changed, and no bullet written
\* from the records names one of them.
C6_NoSkippedAttribute ==
    /\ Diffed => \A i \in 1..Len(diff) : diff[i].Attribute \notin SkipSet
    /\ (op = "attributeBullets") =>
          \A i \in 1..Len(md) : \A k \in SkipSet :
              md[i] \notin BulletTextsOf(k, KeyValues(k) \cup {Nil})

\* A skip-set key changed next to an ordinary key that changed: only the
\* ordinary key is reported, and only its bullet is written.
C6_Witness ==
    /\ op = "attributeBullets" /\ BothMaps
    /\ \E k \in SkipSet :
          /\ k \in DOMAIN change.Before.m /\ k \in DOMAIN change.After.m
          /\ change.Before.m[k] # change.After.m[k]
    /\ Len(diff) = 1 /\ diff[1].Attribute = "name"
    /\ Len(md) = 1 /\ md[1] \in BulletTextsOf("name", KeyValues("name") \cup {Nil})

\* C7: when before or after is not a map, the differ returns no record,
\* even when the other side is a map with keys.
C7_NonMapGivesEmptyDiff ==
    (Diffed /\ ~BothMaps) => diff = << >>

\* before is null and after is a map with a key: the differ returned empty.
C7_Witness ==
    /\ Diffed
    /\ change.Before = Nil
    /\ IsMap(change.After) /\ DOMAIN change.After.m # {}
    /\ diff = << >>

\* The entries of forceReplaceAttrs that the diff has a record about.
ForcedInDiff == {j \in 1..Len(forceReplaceAttrs) : RecordsOf(forceReplaceAttrs[j]) # {}}

\* C8: when the diff holds attributes of the priority list, the reason
\* names the one that comes first in the list.
C8_FirstInPriorityList ==
    (op = "determineReplaceReason" /\ ForcedInDiff # {}) =>
        LET j == CHOOSE x \in ForcedInDiff : \A y \in ForcedInDiff : x <= y
            i == CHOOSE x \in RecordsOf(forceReplaceAttrs[j]) : TRUE
        IN reason = "Attribute '" \o diff[i].Attribute \o "' changed from '"
                    \o Sprintv(diff[i].Before) \o "' to '" \o Sprintv(diff[i].After)
                    \o "' (forces replacement)"

(***************************************************************************)
(* Claims about the multi-plan renderer (checked under SpecMulti).         *)
(***************************************************************************)
MultiRendered == op = "generateMultiPlanMarkdownComment"

\* Plan p has a resource change with create, update or delete among its
\* actions.
HasClassified(p) ==
    \E i \in 1..Len(p.ResourceChanges) :
        \E a \in {"create", "update", "delete"} :
            containsAction(p.ResourceChanges[i].Change.Actions, a)

\* The number of resource changes of p that are classified.
ClassifiedCount(p) ==
    Cardinality({i \in 1..Len(p.ResourceChanges) :
        \E a \in {"create", "update", "delete"} :
            containsAction(p.ResourceChanges[i].Change.Actions, a)})

EnvHeaders == {EnvHeader(LabelOrder[i]) : i \in 1..Len(LabelOrder)}

\* C18: when no plan has anything to classify (no plan at all, plans
\* without resource changes, plans of no-op and read only), the Markdown is
\* the header and the "No changes detected across all environments"
\* sentence and nothing else.
C18_NoChangesAcrossAll ==
    (MultiRendered /\ \A i \in 1..Len(plans) : ~HasClassified(plans[i].Plan)) =>
        /\ md = <<MultiHeader, NoChangesAcrossAll>>
        /\ \A i \in 1..Len(md) :
              /\ md[i] \notin EnvHeaders
              /\ md[i] \notin {"### :bar_chart: Overall Summary\n\n", "| Action | Total Count |\n"}
              /\ md[i] # VersionFooter(versions)

\* A plan of a no-op and a read, and a plan without resource changes, were
\* rendered.
C18_Witness ==
    /\ MultiRendered
    /\ Len(plans) = 2
    /\ Len(plans[1].Plan.ResourceChanges) = 2
    /\ ~HasClassified(plans[1].Plan)
    /\ plans[2].Plan.ResourceChanges = << >>
    /\ Len(md) = 2

\* The versions of the first n plans, each once, in order of first
\* occurrence.
RECURSIVE FirstOccurrences(_)
FirstOccurrences(n) ==
    IF n = 0 THEN << >>
    ELSE LET before == FirstOccurrences(n - 1)
             v == plans[n].Plan.TerraformVersion
         IN IF \E j \in 1..(n - 1) : plans[j].Plan.TerraformVersion = v
            THEN before ELSE before \o <<v>>

\* C19: after the accumulation loop the version list holds every distinct
\* terraform_version once, in order of first occurrence, the versions of
\* plans without classified changes included; when a footer is written it
\* is the last write, naming the version when there is one and listing all
\* of them comma-joined in that order otherwise.
C19_VersionsOnceInOrder ==
    MultiRendered =>
        /\ versions = FirstOccurrences(Len(plans))
        /\ \A i, j \in 1..Len(versions) : (i # j) => versions[i] # versions[j]
        /\ {versions[i] : i \in 1..Len(versions)}
             = {plans[i].Plan.TerraformVersion : i \in 1..Len(plans)}
        /\ (\E i \in 1..Len(plans) : HasClassified(plans[i].Plan)) =>
              md[Len(md)] =
                 (IF Len(versions) = 1
                  THEN "*Generated from Terraform " \o versions[1] \o " plans*\n"
                  ELSE IF Len(versions) = 2
                  THEN "*Generated from Terraform plans (versions: "
                       \o versions[1] \o ", " \o versions[2] \o ")*\n"
                  ELSE "*Generated from Terraform plans (versions: "
                       \o versions[1] \o ", " \o versions[2] \o ", " \o versions[3] \o ")*\n")

\* Two plans of one version, the first without classified changes.
C19_Witness ==
    /\ MultiRendered
    /\ Len(plans) = 2
    /\ plans[1].Plan.TerraformVersion = plans[2].Plan.TerraformVersion
    /\ ~HasClassified(plans[1].Plan) /\ HasClassified(plans[2].Plan)
    /\ versions = <<"1.5.7">>
    /\ md[Len(md)] = "*Generated from Terraform 1.5.7 plans*\n"

\* The positions in md of the environment headers, in order.
RECURSIVE HeaderPositions(_)
HeaderPositions(n) ==
    IF n = 0 THEN << >>
    ELSE IF md[n] \in EnvHeaders THEN HeaderPositions(n - 1) \o <<n>>
    ELSE HeaderPositions(n - 1)

\* The writes of the k-th subsection after its header: up to the next
\* header, or up to the footer for the last one.
SectionBody(k) ==
    LET pos == HeaderPositions(Len(md))
        last == IF k < Len(pos) THEN pos[k + 1] - 1 ELSE Len(md) - 1
    IN SubSeq(md, pos[k] + 1, last)

\* C20: when some plan has classified changes, md holds one subsection per
\* plan handed in, in the order handed in; the subsection of a plan with
\* nothing classified is the "No changes in this environment" line alone;
\* any other subsection is the table header, one row per non-empty bucket,
\* the detail sections and, last, the horizontal rule.
C20_SubsectionPerPlan ==
    (MultiRendered /\ \E i \in 1..Len(plans) : HasClassified(plans[i].Plan)) =>
        LET pos == HeaderPositions(Len(md))
        IN /\ Len(pos) = Len(plans)
           /\ \A k \in 1..Len(pos) :
                /\ md[pos[k]] = EnvHeader(plans[k].RelativePath)
                /\ IF HasClassified(plans[k].Plan)
                   THEN LET body == SectionBody(k)
                        IN /\ Len(body) >= 6
                           /\ body[1] = "| Action | Count | Resources |\n"
                           /\ body[2] = "|--------|-------|----------|\n"
                           /\ body[Len(body)] = "---\n\n"
                           /\ \A i \in 1..Len(body) : body[i] # NoChangesInEnvironment
                           /\ \E i \in 4..(Len(body) - 1) :
                                body[i] \in {"**:green_circle: Resources to be Created:**\n",
                                             "**:yellow_circle: Resources to be Updated:**\n",
                                             "**:arrows_counterclockwise: Resources to be Replaced:**\n",
                                             "**:red_circle: Resources to be Deleted:**\n"}
                   ELSE SectionBody(k) = <<NoChangesInEnvironment>>

\* Two plans handed in with the later label first, the second with nothing
\* classified.
C20_Witness ==
    /\ MultiRendered
    /\ Len(plans) = 2
    /\ plans[1].RelativePath = "root" /\ plans[2].RelativePath = "env1"
    /\ HasClassified(plans[1].Plan) /\ ~HasClassified(plans[2].Plan)
    /\ Len(plans[2].Plan.ResourceChanges) = 2
    /\ HeaderPositions(Len(md)) # << >>
    /\ md[Len(md) - 1] = NoChangesInEnvironment

(***************************************************************************)
(* Claims about directory mode (checked under SpecDir).                    *)
(***************************************************************************)
\* findAndReadPlanFiles has returned.
WalkDone == op \in {"findAndReadPlanFiles", "main"}

\* The walk reports an error for one of its entries.
WalkFailed == \E i \in 1..Len(walk) : walk[i].err

\* Entry e is a file named tfplan.json.
IsPlanFile(e) == ~e.err /\ ~e.IsDir /\ e.path[Len(e.path)] = "tfplan.json"

\* Entry e is a plan file that decodes and has at least one resource
\* change.
Kept(e) ==
    /\ IsPlanFile(e)
    /\ e.file.failure = ""
    /\ e.file.data.kind = "map"
    /\ Len(e.file.data.m["resource_changes"].items) > 0

\* Entry e is a plan file that cannot be opened or read, or whose bytes are
\* not JSON.
FailsToDecode(e) ==
    IsPlanFile(e) /\ (e.file.failure # "" \/ e.file.data.kind = "malformed")

\* The label of the plan file at path: "root" directly in the root, else
\* the directories between the root and the file.
ExpectedLabel(path) ==
    LET n == Len(path) - Len(rootDir) - 1
        first == path[Len(rootDir) + 1]
    IN IF n = 0 THEN "root"
       ELSE IF n = 1 THEN first
       ELSE first \o "/" \o path[Len(rootDir) + 2]

\* The walk of scenario E: its plan files are env1/tfplan.json with a
\* change and env2/tfplan.json without resource changes, and it reports no
\* error.
SceneE ==
    /\ ~WalkFailed
    /\ \E i \in 1..Len(walk) : walk[i] = PlanFile(<<"env1">>, File("", CreatePlan))
    /\ \E i \in 1..Len(walk) : walk[i] = PlanFile(<<"env2">>, File("", EmptyPlan))
    /\ \A i \in 1..Len(walk) :
          IsPlanFile(walk[i]) =>
             /\ Len(walk[i].path) = Len(rootDir) + 2
             /\ walk[i].path[Len(rootDir) + 1] \in {"env1", "env2"}

\* The env1 subsection with its table and details, and the totals counting
\* env1's one resource.
Env1Reported ==
    /\ \E p \in 1..(Len(md) - 1) :
          /\ md[p] = "#### :file_folder: ~env1~\n\n"
          /\ md[p + 1] = "| Action | Count | Resources |\n"
    /\ \E p \in 1..(Len(md) - 1) :
          /\ md[p] = "**:green_circle: Resources to be Created:**\n"
          /\ md[p + 1] = "- ~aws_a.x~\n"
    /\ md[3] = "**Total resources affected:** 1\n\n"
    /\ \E p \in 1..Len(md) : md[p] = "| :green_circle: **Create** | 1 |\n"

\* C13 as stated: the Markdown of scenario E has the env1 subsection with
\* details, an env2 subsection that says there are no changes, and totals
\* of env1 only.
C13_EmptyPlanSubsection ==
    (op = "main" /\ SceneE) =>
        /\ Env1Reported
        /\ \E p \in 1..(Len(md) - 1) :
              /\ md[p] = "#### :file_folder: ~env2~\n\n"
              /\ md[p + 1] = ":white_check_mark: No changes in this environment\n\n"

\* C13, amended: the Markdown of scenario E has the env1 subsection with
\* details and totals of env1 only; env2's plan was dropped by the walk, so
\* the Markdown has no env2 subsection and no "No changes in this
\* environment" line, and counts one environment.
C13_EmptyPlanLeftOut ==
    (op = "main" /\ SceneE) =>
        /\ Env1Reported
        /\ md[2] = "**Environments processed:** 1\n"
        /\ Len(plans) = 1
        /\ \A p \in 1..Len(md) :
              /\ md[p] # "#### :file_folder: ~env2~\n\n"
              /\ md[p] # ":white_check_mark: No changes in this environment\n\n"

\* Scenario E ran to the end, env2 visited first, and the file was written.
C13_Witness ==
    /\ op = "main" /\ SceneE
    /\ walk[1] = PlanFile(<<"env2">>, File("", EmptyPlan))
    /\ exitCode = Exit(0)
    /\ outputFile = Written(Bytes(md))

\* C14: when the walk reports no error, findAndReadPlanFiles returns no
\* error and one PlanInfo, holding the plan of the document, for every plan
\* file that decodes and has a resource change, and nothing else: files that fail to open, read or
\* parse and plans without resource changes are left out, whatever was
\* found before or after them.
C14_OnePlanPerGoodFile ==
    (WalkDone /\ ~WalkFailed) =>
        /\ err = None
        /\ Len(plans) = Cardinality({j \in 1..Len(walk) : Kept(walk[j])})
        /\ \A j \in 1..Len(walk) :
              Kept(walk[j]) =>
                 LET document == walk[j].file.data
                     label == ExpectedLabel(walk[j].path)
                 IN Cardinality({i \in 1..Len(plans) :
                         /\ PlanDocument(plans[i].Plan) = document
                         /\ plans[i].RelativePath = label})
                    = Cardinality({k \in 1..Len(walk) :
                         /\ Kept(walk[k])
                         /\ walk[k].file.data = document
                         /\ ExpectedLabel(walk[k].path) = label})

\* A file that does not decode was visited between two good plan files,
\* and both plans were returned.
C14_Witness ==
    /\ op = "findAndReadPlanFiles"
    /\ Len(walk) = 3
    /\ Kept(walk[1]) /\ Kept(walk[3])
    /\ FailsToDecode(walk[2])
    /\ Len(plans) = 2

\* C15: findAndReadPlanFiles returns an error exactly when the walk
\* reported one; it then returns no plan list, and main exits with status 1
\* having rendered and written nothing.  While the walk runs, the callback
\* returns an error for the entries the walk failed on and for no other: a
\* plan file that does not decode gives none.
C15_TraversalErrorFatal ==
    /\ (op = "walkFn") => ((err # None) <=> walk[visited].err)
    /\ WalkDone => ((err # None) <=> WalkFailed)
    /\ (WalkDone /\ WalkFailed) => plans = None
    /\ (op = "main" /\ WalkFailed) =>
          /\ exitCode = Exit(1)
          /\ outputFile = None
          /\ md = None

\* Two plans were found, then the walk failed: main exited with failure.
C15_Witness ==
    /\ op = "main"
    /\ Len(walk) = 3
    /\ Kept(walk[1]) /\ Kept(walk[2]) /\ walk[3].err
    /\ plans = None
    /\ exitCode = Exit(1)

\* The position of label l in ascending order of the labels as strings.
AscendingRank(l) ==
    CASE l = "env1" -> 1
      [] l = "env1/dev" -> 2
      [] l = "env2" -> 3
      [] l = "root" -> 4

\* C16: the plans findAndReadPlanFiles returns are in ascending order of
\* relative_path whatever the order of the walk, and the environment
\* subsections main renders are those of the plans in that order.
C16_PlansSortedByPath ==
    /\ (WalkDone /\ ~WalkFailed) =>
          \A i, j \in 1..Len(plans) :
             (i < j) => AscendingRank(plans[i].RelativePath)
                          <= AscendingRank(plans[j].RelativePath)
    /\ (op = "main" /\ ~WalkFailed /\ \E i \in 1..Len(plans) : HasClassified(plans[i].Plan)) =>
          LET pos == HeaderPositions(Len(md))
          IN /\ Len(pos) = Len(plans)
             /\ \A k \in 1..Len(pos) : md[pos[k]] = EnvHeader(plans[k].RelativePath)

\* The walk met env2, then env1/dev, then env1; the subsections are env1,
\* env1/dev, env2.
C16_Witness ==
    /\ op = "main"
    /\ Len(walk) = 3
    /\ walk[1] = PlanFile(<<"env2">>, File("", DeletePlan))
    /\ walk[2] = PlanFile(<<"env1", "dev">>, File("", DeletePlan))
    /\ walk[3] = PlanFile(<<"env1">>, File("", CreatePlan))
    /\ Len(plans) = 3
    /\ plans[1].RelativePath = "env1" /\ plans[3].RelativePath = "env2"
    /\ HeaderPositions(Len(md)) # << >>
    /\ md[HeaderPositions(Len(md))[1]] = "#### :file_folder: ~env1~\n\n"

\* C17: the plans of one walk have labels that differ from one another;
\* the label is "root" for the file directly in the root and the parent
\* directory's path relative to the root for every other file.
C17_LabelsUnique ==
    (WalkDone /\ ~WalkFailed) =>
        /\ \A i, j \in 1..Len(plans) :
              (i # j) => plans[i].RelativePath # plans[j].RelativePath
        /\ \A j \in 1..Len(walk) :
              Kept(walk[j]) =>
                 \E i \in 1..Len(plans) :
                    /\ PlanDocument(plans[i].Plan) = walk[j].file.data
                    /\ plans[i].RelativePath = ExpectedLabel(walk[j].path)

\* C30: when the walk reports no error and keeps no plan (there is no
\* plan file, or every one fails to decode or has no resource change), main
\* writes "No tfplan.json files found" to os.Stderr last, exits with status
\* 1, renders nothing and writes no file; the file is written only when a
\* plan was kept, and nothing is rendered from an empty list of plans.
C30_NoPlansIsFailure ==
    /\ (op = "main" /\ ~WalkFailed /\ \A j \in 1..Len(walk) : ~Kept(walk[j])) =>
          /\ Len(stderr) > 0
          /\ stderr[Len(stderr)] = "No tfplan.json files found in directory: plans\n"
          /\ exitCode = Exit(1)
          /\ outputFile = None
          /\ md = None
    /\ (op = "main" /\ outputFile # None) =>
          /\ \E j \in 1..Len(walk) : Kept(walk[j])
          /\ Len(plans) >= 1
          /\ exitCode = Exit(0)
    /\ (op = "main" /\ Len(stderr) > 0
          /\ stderr[Len(stderr)] = "Error writing output file\n") => Len(plans) >= 1

\* A plan file that does not decode, a plan without resource changes and a
\* file of another name were visited; main warned, then reported that it
\* found no plan.
C30_Witness ==
    /\ op = "main"
    /\ Len(walk) = 3
    /\ FailsToDecode(walk[1])
    /\ walk[2] = PlanFile(<<"env2">>, File("", EmptyPlan))
    /\ ~walk[3].err /\ ~IsPlanFile(walk[3])
    /\ Len(stderr) = 2
    /\ exitCode = Exit(1)

(***************************************************************************)
(* Claims about the decoder (checked under SpecRead).                      *)
(***************************************************************************)
\* Value v may stand where the struct has a string.
StringOrNull(v) == v.kind \in {"string", "nil"}

\* Object m has key k with a value that is not null.
Has(m, k) == k \in DOMAIN m /\ m[k].kind # "nil"

\* Value v has the structure of a change.
ChangeStructure(v) ==
    \/ v.kind = "nil"
    \/ /\ v.kind = "map"
       /\ Has(v.m, "actions") =>
            /\ v.m["actions"].kind = "list"
            /\ \A i \in 1..Len(v.m["actions"].items) : StringOrNull(v.m["actions"].items[i])

\* Value v has the structure of a resource change.
ResourceChangeStructure(v) ==
    \/ v.kind = "nil"
    \/ /\ v.kind = "map"
       /\ \A k \in {"address", "module_address", "mode", "type", "name", "provider_name"} :
             Has(v.m, k) => v.m[k].kind = "string"
       /\ Has(v.m, "change") => ChangeStructure(v.m["change"])

\* Data d is JSON of the structure of a plan: null, or an object whose
\* known keys, where present and not null, have values of the types of the
\* fields.
PlanStructure(d) ==
    \/ d.kind = "nil"
    \/ /\ d.kind = "map"
       /\ Has(d.m, "terraform_version") => d.m["terraform_version"].kind = "string"
       /\ Has(d.m, "resource_changes") =>
            /\ d.m["resource_changes"].kind = "list"
            /\ \A i \in 1..Len(d.m["resource_changes"].items) :
                  ResourceChangeStructure(d.m["resource_changes"].items[i])

\* Resource change rc is what element v of resource_changes decodes to:
\* the fields v has, and zero values for the others.
ElementDefaults(rc, v) ==
    IF v.kind = "nil" \/ ~Has(v.m, "change")
    THEN /\ rc.Change = [Actions |-> << >>, Before |-> Nil, After |-> Nil]
         /\ rc.Address = (IF v.kind = "map" /\ Has(v.m, "address")
                          THEN v.m["address"].s ELSE "")
    ELSE LET c == v.m["change"].m
         IN /\ rc.Address = (IF Has(v.m, "address") THEN v.m["address"].s ELSE "")
            /\ rc.Change.Before = (IF "before" \in DOMAIN c THEN c["before"] ELSE Nil)
            /\ rc.Change.After = (IF "after" \in DOMAIN c THEN c["after"] ELSE Nil)
            /\ Len(rc.Change.Actions) = (IF Has(c, "actions") THEN Len(c["actions"].items) ELSE 0)
            /\ \A i \in 1..Len(rc.Change.Actions) :
                  rc.Change.Actions[i] = (IF c["actions"].items[i].kind = "string"
                                          THEN c["actions"].items[i].s ELSE "")

\* C21: readTerraformPlan returns a plan and no error, or an error and no
\* plan.  A source that cannot be opened or read gives "failed to open
\* file" or "failed to read file"; bytes that are not JSON of the structure
\* of a plan give "failed to parse JSON"; JSON of that structure decodes,
\* whatever keys are missing or unknown, to the fields it has and zero
\* values for the others.
C21_PlanOrError ==
    (op = "readTerraformPlan") =>
        /\ (output.plan = None) # (output.err = None)
        /\ (input.failure = "open") => output.err = Error("failed to open file")
        /\ (input.failure = "read") => output.err = Error("failed to read file")
        /\ (input.failure = "" /\ input.data.kind = "malformed") =>
              output.err = Error("failed to parse JSON")
        /\ (input.failure = "" /\ input.data.kind # "malformed" /\ ~PlanStructure(input.data)) =>
              output.err = Error("failed to parse JSON")
        /\ (input.failure = "" /\ input.data.kind # "malformed" /\ PlanStructure(input.data)) =>
              /\ output.err = None
              /\ output.plan.TerraformVersion =
                    (IF input.data.kind = "map" /\ Has(input.data.m, "terraform_version")
                     THEN input.data.m["terraform_version"].s ELSE "")
              /\ IF input.data.kind = "map" /\ Has(input.data.m, "resource_changes")
                 THEN LET items == input.data.m["resource_changes"].items
                      IN /\ Len(output.plan.ResourceChanges) = Len(items)
                         /\ \A i \in 1..Len(items) :
                               ElementDefaults(output.plan.ResourceChanges[i], items[i])
                 ELSE output.plan.ResourceChanges = << >>

\* An object with an unknown key, without terraform_version, and with an
\* empty object and a resource change without address in resource_changes
\* was decoded.
C21_Witness ==
    /\ op = "readTerraformPlan"
    /\ input.failure = "" /\ input.data.kind = "map"
    /\ "timestamp" \in DOMAIN input.data.m
    /\ "terraform_version" \notin DOMAIN input.data.m
    /\ output.err = None
    /\ output.plan.TerraformVersion = ""
    /\ Len(output.plan.ResourceChanges) = 2
    /\ output.plan.ResourceChanges[1] =
          [Address |-> "", Change |-> [Actions |-> << >>, Before |-> Nil, After |-> Nil]]
    /\ output.plan.ResourceChanges[2].Change.Actions = <<"delete", "">>

(***************************************************************************)
(* Claims about the formatters (checked under SpecFormat).                 *)
(***************************************************************************)
\* C22: formatResourceList(resources, 3) is the empty string for no
\* resource, the addresses in bucket order joined by ", " for one to three
\* resources, and the first three joined by ", " followed by
\* ", ... (+N more)" with N the number of resources minus three for more.
C22_ResourceListTruncated ==
    (op = "formatResourceList") =>
        LET n == Len(input)
            first == input[1].Address
            firstTwo == input[1].Address \o ", " \o input[2].Address
            firstThree == input[1].Address \o ", " \o input[2].Address
                          \o ", " \o input[3].Address
        IN output.bytes =
              (IF n = 0 THEN ""
               ELSE IF n = 1 THEN first
               ELSE IF n = 2 THEN firstTwo
               ELSE IF n = 3 THEN firstThree
               ELSE firstThree \o ", ... (+" \o ToString(n - 3) \o " more)")

\* A bucket of five resources, not in address order: three shown, two more.
C22_Witness ==
    /\ op = "formatResourceList"
    /\ Len(input) = 5
    /\ input[1].Address = "aws_b.x" /\ input[2].Address = "aws_a.x"
    /\ input[3].Address = "aws_a.y"
    /\ output.bytes = "aws_b.x, aws_a.x, aws_a.y, ... (+2 more)"

\* C23: formatAttributeValue gives "(null)" for null, "(empty)" for the
\* empty string, the string in double quotes otherwise, "[]" and
\* "[n items]" for a sequence, "{}" and "{n keys}" for a mapping, and the
\* default rendering for a number or a boolean; of a composite value only
\* the size shows.
C23_ValueByKind ==
    (op = "formatAttributeValue") =>
        output.bytes =
          (CASE input.kind = "nil" -> "(null)"
             [] input.kind = "string" ->
                   (IF input.s = "" THEN "(empty)" ELSE "\"" \o input.s \o "\"")
             [] input.kind = "list" ->
                   (IF Len(input.items) = 0 THEN "[]"
                    ELSE "[" \o ToString(Len(input.items)) \o " items]")
             [] input.kind = "map" ->
                   (IF DOMAIN input.m = {} THEN "{}"
                    ELSE "{" \o ToString(Cardinality(DOMAIN input.m)) \o " keys}")
             [] input.kind = "number" -> ToString(input.n)
             [] input.kind = "bool" -> (IF input.b THEN "true" ELSE "false"))

\* A sequence of a string and a null was formatted.
C23_Witness ==
    /\ op = "formatAttributeValue"
    /\ input = List(<<Str("a"), Nil>>)
    /\ output.bytes = "[2 items]"

(***************************************************************************)
(* Claims about the reasons (checked under SpecDiff).                      *)
(***************************************************************************)
\* The identifier that key k of the before map contributes: none when the
\* key is absent or null.
DeleteIdentifier(k) ==
    IF k \in DOMAIN change.Before.m /\ change.Before.m[k].kind # "nil"
    THEN <<k \o ": " \o Sprintv(change.Before.m[k])>>
    ELSE << >>

DeleteIdentifiers ==
    DeleteIdentifier("name") \o DeleteIdentifier("id")
    \o DeleteIdentifier("family") \o DeleteIdentifier("engine")

\* C24: determineDeleteReason returns "Resource marked for deletion" when
\* before is not a mapping; otherwise it returns "Resource with " and the
\* comma-joined "<key>: <value>" of those of name, id, family, engine, in
\* that order, that before binds to a non-null value, and
\* "Resource marked for deletion" when there is none.  A key bound to null
\* counts as absent.
C24_DeleteReason ==
    (op = "determineDeleteReason") =>
        reason = (IF change.Before.kind # "map" THEN "Resource marked for deletion"
                  ELSE IF DeleteIdentifiers = << >> THEN "Resource marked for deletion"
                  ELSE "Resource with " \o Join(DeleteIdentifiers, ", "))

\* A before map that binds all four identifying keys, family to null.
C24_Witness ==
    /\ op = "determineDeleteReason"
    /\ IsMap(change.Before)
    /\ DOMAIN change.Before.m = {"name", "id", "family", "engine", "size"}
    /\ change.Before.m["family"] = Nil
    /\ change.Before.m["size"] = Num(1)
    /\ reason = "Resource with name: web, id: i-1, engine: mysql"

PriorityAttributes == {"name", "family", "engine", "vpc_id", "availability_zone"}

\* The diff of the replaced resource holds no attribute of the priority list.
NoPriorityAttribute ==
    \A i \in 1..Len(diff) : diff[i].Attribute \notin PriorityAttributes

\* C25: for a replaced resource whose diff holds no attribute of the
\* priority list, determineReplaceReason returns
\* "Multiple attribute changes require replacement" when the diff is not
\* empty, one record being enough, and
\* "Resource configuration requires replacement" when it is empty, as it is
\* when before or after is not a mapping and when only skipped keys differ.
C25_GenericReplaceReason ==
    (op = "determineReplaceReason" /\ NoPriorityAttribute) =>
        /\ Len(diff) > 0 => reason = "Multiple attribute changes require replacement"
        /\ Len(diff) = 0 => reason = "Resource configuration requires replacement"
        /\ ~BothMaps => reason = "Resource configuration requires replacement"
        /\ (BothMaps /\ \A k \in DOMAIN change.Before.m \cup DOMAIN change.After.m :
                           k \in SkipSet)
              => reason = "Resource configuration requires replacement"

\* One changed attribute outside the priority list: the generic reason.
C25_Witness ==
    /\ op = "determineReplaceReason"
    /\ Len(diff) = 1
    /\ diff[1].Attribute = "size"
    /\ reason = "Multiple attribute changes require replacement"

\* Only skipped keys differ: the diff is empty and so is the explanation.
C25_WitnessSkippedOnly ==
    /\ op = "determineReplaceReason"
    /\ BothMaps
    /\ DOMAIN change.Before.m = {"id"} /\ DOMAIN change.After.m = {"id"}
    /\ change.Before.m["id"] # change.After.m["id"]
    /\ diff = << >>
    /\ reason = "Resource configuration requires replacement"

(***************************************************************************)
(* Claims about the layout of the single-plan comment (checked under Spec).*)
(***************************************************************************)
BucketOrder == <<"Create", "Update", "Replace", "Delete">>

\* The buckets of the summary that are not empty, in the fixed order.
NonEmptyBuckets == SelectSeq(BucketOrder, LAMBDA b : Len(summary[b]) > 0)

SectionHeadings ==
    [Create |-> "### :green_circle: Resources to be Created\n\n",
     Update |-> "### :yellow_circle: Resources to be Updated\n\n",
     Replace |-> "### :arrows_counterclockwise: Resources to be Replaced\n\n",
     Delete |-> "### :red_circle: Resources to be Deleted\n\n"]

IsSectionHeading(w) == \E b \in DOMAIN SectionHeadings : w = SectionHeadings[b]

\* The position of the blank line that closes the summary table.
TableClose ==
    CHOOSE i \in 5..Len(md) : md[i] = "\n" /\ \A j \in 5..(i - 1) : md[j] # "\n"

\* The section headings written, in the order of writing.
HeadingsWritten == SelectSeq(md, IsSectionHeading)

\* C26: in a single-plan render with at least one classified resource the
\* table has one row per non-empty bucket and none for an empty one, in the
\* order Create, Update, Replace, Delete; the detail sections follow the
\* table, one per non-empty bucket in the same order; the version footer is
\* written last.
C26_RowsAndSectionsInOrder ==
    (Rendered /\ SummaryTotal > 0) =>
        /\ Len(TableRows) = Len(NonEmptyBuckets)
        /\ \A i \in 1..Len(NonEmptyBuckets) :
              TableRows[i] = RowText(NonEmptyBuckets[i], Len(summary[NonEmptyBuckets[i]]))
        /\ HeadingsWritten = [i \in 1..Len(NonEmptyBuckets) |-> SectionHeadings[NonEmptyBuckets[i]]]
        /\ \A i \in 1..Len(md) : IsSectionHeading(md[i]) => i > TableClose
        /\ md[Len(md) - 1] = "---\n"
        /\ md[Len(md)] = "*Generated from Terraform " \o plan.TerraformVersion \o " plan*\n"
        /\ \A i \in 1..(Len(md) - 1) :
              md[i] # "*Generated from Terraform " \o plan.TerraformVersion \o " plan*\n"

\* A plan of a delete and then a replace was rendered: the Replace row and
\* section come first.
C26_Witness ==
    /\ op = "generateMarkdownComment"
    /\ Len(plan.ResourceChanges) = 2
    /\ plan.ResourceChanges[1].Change.Actions = <<"delete">>
    /\ plan.ResourceChanges[2].Change.Actions = <<"delete", "create">>
    /\ NonEmptyBuckets = <<"Replace", "Delete">>
    /\ Len(TableRows) = 2
    /\ HeadingsWritten = <<SectionHeadings["Replace"], SectionHeadings["Delete"]>>

\* The position of the heading of bucket b's section.
SectionStart(b) == CHOOSE i \in 1..Len(md) : md[i] = SectionHeadings[b]

\* The position of the write that follows bucket b's section: the next
\* section heading or the rule of the footer.
SectionEnd(b) ==
    CHOOSE j \in (SectionStart(b) + 1)..Len(md) :
        /\ IsSectionHeading(md[j]) \/ md[j] = "---\n"
        /\ \A k \in (SectionStart(b) + 1)..(j - 1) :
              ~IsSectionHeading(md[k]) /\ md[k] # "---\n"

\* The writes of bucket b's section, its heading included.
SectionWrites(b) == SubSeq(md, SectionStart(b), SectionEnd(b) - 1)

\* The attribute bullets of the entries of bucket b.
BulletsOf(b) ==
    UNION {{AttributeBullet(summary[b][i].Changes[k]) :
                k \in 1..Len(summary[b][i].Changes)} : i \in 1..Len(summary[b])}

\* The number of attribute bullets among the writes ws.
BulletCount(ws) ==
    Cardinality({i \in 1..Len(ws) : \E b \in DOMAIN SectionHeadings : ws[i] \in BulletsOf(b)})

\* C27: a resource of the Create or of the Delete bucket gets no
\* attribute-change bullet, even when its changes list is not empty: the
\* Create section is its heading, one bare address bullet per resource and
\* a blank line; the Delete section is its heading and, per resource, the
\* resource heading and the reason line.  An Update entry with an empty
\* changes list gets the sentence "No specific attribute changes detected".
C27_NoBulletsForCreateAndDelete ==
    (Rendered /\ SummaryTotal > 0) =>
        /\ Len(summary.Create) > 0 =>
              /\ SectionWrites("Create") =
                    <<SectionHeadings["Create"]>>
                    \o [i \in 1..Len(summary.Create) |->
                           "- ~" \o summary.Create[i].Address \o "~\n"]
                    \o <<"\n">>
              /\ BulletCount(SectionWrites("Create")) = 0
        /\ Len(summary.Delete) > 0 =>
              /\ Len(SectionWrites("Delete")) = 1 + 2 * Len(summary.Delete)
              /\ \A i \in 1..Len(summary.Delete) :
                    /\ SectionWrites("Delete")[2 * i] =
                          "#### ~" \o summary.Delete[i].Address \o "~\n\n"
                    /\ SectionWrites("Delete")[2 * i + 1] =
                          "**Resource details:** " \o summary.Delete[i].ForceReason \o "\n\n"
              /\ BulletCount(SectionWrites("Delete")) = 0
        /\ \A i \in 1..Len(summary.Update) :
              summary.Update[i].Changes = << >> =>
                 \E p \in 1..(Len(SectionWrites("Update")) - 2) :
                    /\ SectionWrites("Update")[p] =
                          "#### ~" \o summary.Update[i].Address \o "~\n\n"
                    /\ SectionWrites("Update")[p + 1] =
                          "*No specific attribute changes detected*\n"
                    /\ SectionWrites("Update")[p + 2] = "\n"

\* A plan of a create and a delete, both from a map to a map, was rendered:
\* the changes lists are not empty and no bullet is written.
C27_Witness ==
    /\ op = "generateMarkdownComment"
    /\ Len(summary.Create) = 1 /\ Len(summary.Create[1].Changes) = 1
    /\ Len(summary.Delete) = 1 /\ Len(summary.Delete[1].Changes) = 2
    /\ SectionWrites("Create") =
          <<SectionHeadings["Create"], "- ~aws_b.x~\n", "\n">>
    /\ SectionWrites("Delete") =
          <<SectionHeadings["Delete"], "#### ~aws_a.y~\n\n",
            "**Resource details:** Resource with name: old\n\n">>

\* An update that changes nothing visible was rendered with the sentence.
C27_WitnessEmptyUpdate ==
    /\ op = "generateMarkdownComment"
    /\ Len(summary.Update) = 1 /\ summary.Update[1].Changes = << >>
    /\ SectionWrites("Update") =
          <<SectionHeadings["Update"], "#### ~aws_a.x~\n\n",
            "*No specific attribute changes detected*\n", "\n">>

(***************************************************************************)
(* Claims about the totals of the multi-plan comment (under SpecMulti).    *)
(***************************************************************************)
\* The counts a row may show.
CountRange == 1..(2 * (MaxPlans + 1))

\* The rows of the overall table: from the seventh write up to the blank
\* line that closes the table.
OverallRows ==
    LET close == CHOOSE i \in 7..Len(md) :
                    md[i] = "\n" /\ \A j \in 7..(i - 1) : md[j] # "\n"
    IN SubSeq(md, 7, close - 1)

\* The count the overall table shows for bucket b: 0 when it has no row.
OverallCount(b) ==
    LET shown == {c \in CountRange : \E i \in 1..Len(OverallRows) :
                     OverallRows[i] = "| " \o RowLabels[b] \o " | " \o ToString(c) \o " |\n"}
    IN IF shown = {} THEN 0 ELSE CHOOSE c \in shown : TRUE

\* The texts a Resources cell may hold for a bucket of c resources of
\* plan p.
ResourceCells(p, c) ==
    LET addresses == {p.ResourceChanges[i].Address : i \in 1..Len(p.ResourceChanges)}
    IN {formatResourceList([i \in 1..c |-> ResourceDetail(as[i], << >>, "")], MaxDisplay) :
           as \in [1..c -> addresses]}

\* The rows of the table of the k-th subsection: none for a subsection
\* without table.
EnvRows(k) ==
    LET body == SectionBody(k)
    IN IF Len(body) < 3 THEN << >>
       ELSE LET close == CHOOSE i \in 3..Len(body) :
                            body[i] = "\n" /\ \A j \in 3..(i - 1) : body[j] # "\n"
            IN SubSeq(body, 3, close - 1)

\* The count the k-th subsection shows for bucket b: 0 when it has no row.
EnvCount(k, b) ==
    LET rows == EnvRows(k)
        p == plans[k].Plan
        shown == {c \in 1..Len(p.ResourceChanges) :
                     \E i \in 1..Len(rows) : \E cell \in ResourceCells(p, c) :
                     rows[i] = "| " \o RowLabels[b] \o " | " \o ToString(c)
                               \o " | " \o cell \o " |\n"}
    IN IF shown = {} THEN 0 ELSE CHOOSE c \in shown : TRUE

RECURSIVE SumEnvCounts(_, _)
SumEnvCounts(n, b) == IF n = 0 THEN 0 ELSE SumEnvCounts(n - 1, b) + EnvCount(n, b)

\* C28: the accumulation loop and the rendering loop classify every plan
\* each and agree on every bucket size: each count of the overall table is
\* the sum over the environment subsections of that bucket's count, every
\* row written is a row of one bucket, "Total resources affected" is the
\* sum of the four overall counts and "Environments processed" the number of
\* plans handed in.
C28_OverallIsSumOfEnvironments ==
    (MultiRendered /\ \E i \in 1..Len(plans) : HasClassified(plans[i].Plan)) =>
        /\ \A b \in DOMAIN RowLabels : OverallCount(b) = SumEnvCounts(Len(plans), b)
        /\ \A i \in 1..Len(OverallRows) :
              \E b \in DOMAIN RowLabels : \E c \in CountRange :
                 OverallRows[i] = "| " \o RowLabels[b] \o " | " \o ToString(c) \o " |\n"
        /\ \A k \in 1..Len(plans) :
              Len(EnvRows(k)) = Cardinality({b \in DOMAIN RowLabels : EnvCount(k, b) > 0})
        /\ md[2] = "**Environments processed:** " \o ToString(Len(plans)) \o "\n"
        /\ md[3] = "**Total resources affected:** "
                   \o ToString(OverallCount("Create") + OverallCount("Update")
                               + OverallCount("Replace") + OverallCount("Delete"))
                   \o "\n\n"

\* A plan of a replace and a delete rendered for two environments: each
\* subsection counts one of each, the overall table two.
C28_Witness ==
    /\ MultiRendered
    /\ Len(plans) = 2
    /\ plans[1].Plan = plans[2].Plan
    /\ plans[1].RelativePath = "env1" /\ plans[2].RelativePath = "env2"
    /\ HasClassified(plans[1].Plan)
    /\ EnvCount(1, "Replace") = 1 /\ EnvCount(2, "Replace") = 1
    /\ EnvCount(1, "Delete") = 1 /\ EnvCount(2, "Delete") = 1
    /\ OverallCount("Replace") = 2 /\ OverallCount("Delete") = 2
    /\ md[2] = "**Environments processed:** 2\n"
    /\ md[3] = "**Total resources affected:** 4\n\n"

(***************************************************************************)
(* Claims about the reason of a replaced resource (under SpecAnalyze).     *)
(***************************************************************************)
\* The reason that names the attribute and the values of record ac.
NamesRecord(forceReason, ac) ==
    forceReason = "Attribute '" \o ac.Attribute \o "' changed from '" \o Sprintv(ac.Before)
                  \o "' to '" \o Sprintv(ac.After) \o "' (forces replacement)"

\* C29: for every entry of the Replace bucket the force reason, taken from
\* a second run of the differ, agrees with the changes list, taken from the
\* first: the reason is "Resource configuration requires replacement"
\* exactly when the list is empty, it is "Multiple attribute changes
\* require replacement" only if the list is not empty, and any other reason
\* is the "Attribute '<attr>' changed from ... to ..." text of a record of
\* the list, with that record's before and after values.
C29_ReasonAgreesWithChanges ==
    Analyzed =>
        \A i \in 1..Len(summary.Replace) :
            LET e == summary.Replace[i]
            IN /\ (e.ForceReason = "Resource configuration requires replacement")
                     <=> (e.Changes = << >>)
               /\ (e.ForceReason = "Multiple attribute changes require replacement")
                     => (Len(e.Changes) > 0)
               /\ (e.ForceReason \notin {"Resource configuration requires replacement",
                                         "Multiple attribute changes require replacement"})
                     => \E k \in 1..Len(e.Changes) : NamesRecord(e.ForceReason, e.Changes[k])

\* A replace of name and family: the first run of the differ met name
\* first, the second run family, and the reason names the second record.
C29_Witness ==
    /\ Analyzed
    /\ Len(summary.Replace) = 1
    /\ Len(summary.Replace[1].Changes) = 2
    /\ summary.Replace[1].Changes[1].Attribute = "name"
    /\ summary.Replace[1].Changes[2].Attribute = "family"
    /\ summary.Replace[1].ForceReason =
          "Attribute 'family' changed from 'f1' to 'f2' (forces replacement)"

\* A replace of size alone: the generic reason next to one record.
C29_WitnessGeneric ==
    /\ Analyzed
    /\ Len(summary.Replace) = 1
    /\ Len(summary.Replace[1].Changes) = 1
    /\ summary.Replace[1].Changes[1].Attribute = "size"
    /\ summary.Replace[1].ForceReason = "Multiple attribute changes require replacement"

====
